---- MODULE Spec2Model ----
(***************************************************************************)
(* NatsSession (services/nats-session): the connection table, the          *)
(* subscription and reply-handler registries with their reference          *)
(* counters, and the asynchronous operations that mutate them.             *)
(*                                                                         *)
(* The session runs on one JavaScript execution context: an operation runs *)
(* without interruption until it reaches an await.  `running` holds the    *)
(* operation that is executing synchronously (0: none, every operation is  *)
(* suspended at an await or finished); any other operation can only be     *)
(* called or resumed when running = 0.                                     *)
(***************************************************************************)
EXTENDS Integers, Sequences, FiniteSets, TLC

\* ------------------------------------------------------------- bounds ----
MaxOps == 2          \* asynchronous operations in flight at once
MaxConnects == 2     \* connector invocations in one behaviour
MaxStreams == 3      \* streams open at once
MaxBatch == 2        \* messages one JetStream fetch yields at most
MaxMessages == 2     \* messages delivered to one subscription stream

\* ------------------------------------------------------------- inputs ----
Undefined == "undefined"

Keys == {"k1", "k2"}

\* subjects are strings, modelled as sequences of characters
Subjects == {<<"s">>, <<"t">>}


\* new URL(url): the parsed parts of the server URLs the callers use
UrlA == [protocol |-> "nats:", username |-> "", password |-> "",
         hostname |-> "a", port |-> "", pathname |-> ""]
UrlAPath == [protocol |-> "nats:", username |-> "", password |-> "",
             hostname |-> "a", port |-> "", pathname |-> "/x"]
UrlB == [protocol |-> "nats:", username |-> "u", password |-> "p",
         hostname |-> "b", port |-> "4222", pathname |-> ""]
Urls == {UrlA, UrlAPath, UrlB}

\* the startSubscription calls the callers make: two keys on one
\* (identity, subject) pair through two spellings of the URL, and the first
\* key again with another identity, subject and sink
SubscribeCalls == {
    [url |-> UrlA, subject |-> <<"s">>, sink |-> "out1", key |-> "k1"],
    [url |-> UrlAPath, subject |-> <<"s">>, sink |-> "out2", key |-> "k2"],
    [url |-> UrlB, subject |-> <<"t">>, sink |-> "out2", key |-> "k1"] }

\* the startReplyHandler calls the callers make: a template, and a static
\* payload with reply headers
ReplyCalls == {
    [url |-> UrlA, subject |-> <<"s">>, sink |-> "out1", key |-> "k1",
     template |-> "tpl", payload |-> Undefined, headers |-> Undefined],
    [url |-> UrlB, subject |-> <<"s">>, sink |-> "out2", key |-> "k2",
     template |-> Undefined, payload |-> "data", headers |-> "hdr"] }

\* ------------------------------------------------------- pure helpers ----
normalizeServerUrlKeepsPath(url) ==
    <<url.protocol, "//", url.username, url.password, url.hostname, url.port,
      url.pathname>>

\* normalizeServerUrl: protocol//[user[:pass]@]hostname[:port]
normalizeServerUrl(url) ==
    LET auth == IF url.username # ""
                THEN <<url.username>>
                     \o (IF url.password # "" THEN <<":", url.password>> ELSE <<>>)
                     \o <<"@">>
                ELSE <<>>
        port == IF url.port # "" THEN <<":", url.port>> ELSE <<>>
    IN  <<url.protocol, "//">> \o auth \o <<url.hostname>> \o port

\* buildConnectOptions: the address without credentials and path
buildConnectOptions(url) ==
    [servers |-> <<url.protocol, "//", url.hostname>>
                 \o (IF url.port # "" THEN <<":", url.port>> ELSE <<>>),
     user |-> IF url.username # "" THEN url.username ELSE Undefined,
     pass |-> IF url.password # "" THEN url.password ELSE Undefined]

ServerKeys == {normalizeServerUrl(u) : u \in Urls}

\* subjectKey: `${server}|${subject}`
subjectKey(server, subject) == server \o <<"|">> \o subject

Remove(f, k) == [x \in DOMAIN f \ {k} |-> f[x]]

Put(f, k, v) == [x \in DOMAIN f \cup {k} |-> IF x = k THEN v ELSE f[x]]

\* incrementCount: store.set(key, (store.get(key) ?? 0) + 1)
incrementCount(store, server, subject) ==
    LET key == subjectKey(server, subject)
        current == IF key \in DOMAIN store THEN store[key] ELSE 0
    IN  Put(store, key, current + 1)

\* decrementCount: delete the entry at <= 1, else store current - 1
decrementCount(store, server, subject) ==
    LET key == subjectKey(server, subject)
        current == IF key \in DOMAIN store THEN store[key] ELSE 0
    IN  IF current <= 1 THEN Remove(store, key) ELSE Put(store, key, current - 1)

EndsWith(s, suffix) ==
    /\ Len(s) >= Len(suffix)
    /\ SubSeq(s, Len(s) - Len(suffix) + 1, Len(s)) = suffix

RECURSIVE SumOver(_, _)
SumOver(store, ks) ==
    IF ks = {} THEN 0
    ELSE LET k == CHOOSE x \in ks : TRUE
         IN  store[k] + SumOver(store, ks \ {k})

\* collectCount: the sum of the entries whose key ends with `|${subject}`
collectCount(store, subject) ==
    SumOver(store, {k \in DOMAIN store : EndsWith(k, <<"|">> \o subject)})


\* -------------------------------------------------------------- state ----
VARIABLES
    connections,         \* Map<serverKey, ManagedConnection>
    subscriptions,       \* Map<key, SubscriptionContext>
    replies,             \* Map<key, SubscriptionContext>
    subscriptionCounts,  \* Map<`${server}|${subject}`, number>
    replyCounts,         \* Map<`${server}|${subject}`, number>
    connectorCalls,      \* how often the connector was invoked with each
                         \* NatsConnectOptions; the n-th invocation with
                         \* options o yields the physical connection (o, n)
    closeCalled,         \* physical connections on which close() was called
    streams,             \* for each physical connection, the number of its
                         \* subscribe() streams not yet unsubscribed
    ops,                 \* the asynchronous operations in flight
    running              \* the operation executing synchronously, or 0

vars == <<connections, subscriptions, replies, subscriptionCounts, replyCounts,
          connectorCalls, closeCalled, streams, ops, running>>

Slots == 1..MaxOps

EmptyMap == [x \in {} |-> 0]

\* ---------------------------------------------------- texts, messages ----
\* A text is a sequence of tokens: literal text, or one of the tokens
\* interpolateTemplate looks for ($msg.data, $msg.subject,
\* $msg.headers.<name>, $json.<name>).
Lit(s) == [class |-> "text", name |-> s]
Tok(class, name) == [class |-> class, name |-> name]

\* a subject, which is a sequence of characters, as a text
SubjectText(subject) == [n \in 1..Len(subject) |-> Lit(subject[n])]

\* msg.json() throws: the body is not JSON
NoJson == [decodable |-> FALSE, text |-> <<>>, fields |-> EmptyMap]

\* the strings callers configure as template and payload stand for texts
Text(s) ==
    CASE s = "tpl" -> <<Lit("got "), Tok("data", ""), Lit(" on "),
                        Tok("subject", "")>>
      [] s = "data" -> <<Lit("data")>>
      [] OTHER -> <<>>

\* inbound messages: a one-way publish, and a request with a reply address
\* and a JSON body
Messages == {
    [subject |-> <<"s">>, reply |-> Undefined, body |-> <<Lit("hello")>>,
     json |-> NoJson, headers |-> EmptyMap],
    [subject |-> <<"s">>, reply |-> "inbox", body |-> <<Lit("{ }")>>,
     json |-> [decodable |-> TRUE, text |-> <<Lit("{}")>>,
               fields |-> EmptyMap],
     headers |-> EmptyMap] }

\* safeStringResponse: JSON.stringify(msg.json()), or msg.string() when the
\* body is not JSON
safeStringResponse(msg) ==
    IF msg.json.decodable THEN msg.json.text ELSE msg.body

\* String.replace(/token/g, ...): every token of the text is replaced by
\* what `by` holds for it
RECURSIVE Replaced(_, _)
Replaced(text, by) ==
    IF text = <<>> THEN <<>>
    ELSE by[Head(text)] \o Replaced(Tail(text), by)

Tokens(text) == {text[n] : n \in 1..Len(text)}

\* A JSON value is a string with its characters as text, or a number, an
\* object or null with its JSON text; NoValue is undefined.
NoValue == [kind |-> "undefined", text |-> <<>>]

\* value ?? ""
OrEmptyString(value) ==
    IF value.kind \in {"undefined", "null"}
    THEN [kind |-> "string", text |-> <<>>] ELSE value

\* JSON.stringify(value): a string in quotes, any other value as its JSON
\* text
stringify(value) ==
    IF value.kind = "string"
    THEN <<Lit("\"")>> \o value.text \o <<Lit("\"")>>
    ELSE value.text

\* data?.[key]
FieldOf(msg, name) ==
    IF name \in DOMAIN msg.json.fields THEN msg.json.fields[name] ELSE NoValue

\* typeof value === "string" ? value : JSON.stringify(value ?? "")
FieldText(value) ==
    IF value.kind = "string" THEN value.text
    ELSE stringify(OrEmptyString(value))

\* the $json.<name> callback: the field as it is if it is a string, else
\* JSON.stringify(value ?? ""); "" when msg.json() throws
JsonField(msg, name) ==
    IF ~msg.json.decodable THEN <<>> ELSE FieldText(FieldOf(msg, name))

\* interpolateTemplate: four replace passes, each over the result of the one
\* before
interpolateTemplate(template, msg) ==
    LET r1 == Replaced(template,
                [t \in Tokens(template) |->
                    IF t.class = "data" THEN safeStringResponse(msg)
                    ELSE <<t>>])
        r2 == Replaced(r1,
                [t \in Tokens(r1) |->
                    IF t.class = "subject" THEN SubjectText(msg.subject)
                    ELSE <<t>>])
        r3 == Replaced(r2,
                [t \in Tokens(r2) |->
                    IF t.class = "header"
                    THEN IF t.name \in DOMAIN msg.headers
                         THEN msg.headers[t.name] ELSE <<>>
                    ELSE <<t>>])
    IN  Replaced(r3,
                [t \in Tokens(r3) |->
                    IF t.class = "json" THEN JsonField(msg, t.name)
                    ELSE <<t>>])

\* no physical connection (undefined)
NoConnection == [options |-> buildConnectOptions(UrlA), n |-> 0]

NoManaged == [serverKey |-> <<>>, rawUrl |-> UrlA, connection |-> NoConnection,
              markedClosed |-> FALSE]

\* the number of connector invocations so far
Invocations == SumOver(connectorCalls, DOMAIN connectorCalls)

\* the connection the next connector invocation for url yields
NextConnection(url) ==
    LET o == buildConnectOptions(url)
    IN  [options |-> o,
         n |-> (IF o \in DOMAIN connectorCalls THEN connectorCalls[o] ELSE 0) + 1]

\* the connector having been invoked for url
Invoked(url) ==
    Put(connectorCalls, buildConnectOptions(url), NextConnection(url).n)

\* the streams open on connection c
Open(strs, c) == IF c \in DOMAIN strs THEN strs[c] ELSE 0

\* connection.subscribe(subject) on c / subscription.unsubscribe()
Subscribed(strs, c) == Put(strs, c, Open(strs, c) + 1)
Unsubscribed(strs, c) ==
    IF Open(strs, c) <= 1 THEN Remove(strs, c) ELSE Put(strs, c, strs[c] - 1)

OpenStreams == SumOver(streams, DOMAIN streams)

NoSnap == [subscriptions |-> EmptyMap, replies |-> EmptyMap,
           subscriptionCounts |-> EmptyMap, replyCounts |-> EmptyMap,
           connections |-> EmptyMap, closeCalled |-> {}, streams |-> EmptyMap]

\* an empty slot; every operation is this record with some fields set
Idle == [type |-> "none", pc |-> "none", await |-> "none",
         url |-> UrlA, subject |-> <<>>, sink |-> Undefined, key |-> Undefined,
         template |-> Undefined, payload |-> Undefined, headers |-> Undefined,
         serverKey |-> <<>>,
         call |-> NoConnection,         \* the pending connector invocation
         managed |-> NoManaged,         \* what getConnection returned
         existing |-> NoManaged,        \* reconnectConnection: the old entry
         newConnection |-> NoConnection, \* reconnectConnection: the new one
         subsToReconnect |-> EmptyMap,
         repliesToReconnect |-> EmptyMap,
         todoSubscriptions |-> {},      \* captured keys not yet restored
         todoReplies |-> {},
         closings |-> {},               \* reset: connections being closed
         closeFailed |-> {},            \* reset: those whose close() rejected
         error |-> "none",              \* the error the operation throws
         jsCalls |-> {},                \* pullJetStream: JetStream calls made
         received |-> 0,                \* pullJetStream: messages iterated
         ackable |-> 0,                 \* ... of which expose ack()
         acks |-> 0,                    \* pullJetStream: ack() calls made
         log |-> <<>>,                  \* titles of the records the
                                        \* operation appended to its sink
         text |-> <<>>,                 \* parseNatsDocument: its argument
         segments |-> <<>>,             \* the segments not yet visited
         actions |-> <<>>,              \* the actions pushed so far
         msg |-> Undefined,             \* interpolateTemplate: its message
         rendered |-> <<>>,             \* ... the text it returns
         isReply |-> FALSE,             \* consumeSubscription: its flag
         queue |-> <<>>,                \* ... messages delivered, not taken
         arrived |-> 0,                 \* ... messages delivered so far
         taken |-> <<>>,                \* ... messages the loop took
         records |-> <<>>,              \* ... records appended to its sink
         responses |-> <<>>,            \* ... msg.respond() calls made
         solo |-> FALSE,                \* no other operation was in flight
                                        \* when this one was called, and no
                                        \* call was made since
         snap |-> NoSnap]               \* while solo: the session at the call

InFlight(op) == op.type # "none"

\* another call is made while op is in flight
Disturb(op) ==
    IF InFlight(op) THEN [op EXCEPT !.solo = FALSE, !.snap = NoSnap] ELSE op

Snapshot == [subscriptions |-> subscriptions, replies |-> replies,
             subscriptionCounts |-> subscriptionCounts,
             replyCounts |-> replyCounts, connections |-> connections,
             closeCalled |-> closeCalled, streams |-> streams]

Init ==
    /\ connections = EmptyMap
    /\ subscriptions = EmptyMap
    /\ replies = EmptyMap
    /\ subscriptionCounts = EmptyMap
    /\ replyCounts = EmptyMap
    /\ connectorCalls = EmptyMap
    /\ closeCalled = {}
    /\ streams = EmptyMap
    /\ ops = [i \in Slots |-> Idle]
    /\ running = 0

\* ------------------------------------------------ registry operations ----
\* what stopContext/stopAll work on: one registry, its counters, the streams
Reg(store, counts, strs) == [store |-> store, counts |-> counts, streams |-> strs]

\* stopContext: unsubscribe, delete the key, decrement the counter
stopContext(store, key, counts, strs) ==
    IF key \notin DOMAIN store
    THEN Reg(store, counts, strs)
    ELSE LET context == store[key]
         IN  Reg(Remove(store, key),
                 decrementCount(counts, context.server, context.subject),
                 Unsubscribed(strs, context.subscription.connection))

\* for (key of keys) stopContext(store, key, counts)
RECURSIVE StopKeys(_, _, _, _)
StopKeys(store, keys, counts, strs) ==
    IF keys = {} THEN Reg(store, counts, strs)
    ELSE LET k == CHOOSE x \in keys : TRUE
             r == stopContext(store, k, counts, strs)
         IN  StopKeys(r.store, keys \ {k}, r.counts, r.streams)

\* stopAll: stopContext for every key of the registry
stopAll(store, counts, strs) == StopKeys(store, DOMAIN store, counts, strs)

\* the SubscriptionLike that connection.subscribe(subject) returns
Stream(connection) == [connection |-> connection, ended |-> FALSE]

\* the SubscriptionContext startSubscription/startReplyHandler register
Context(op, subscription) ==
    [subject |-> op.subject, server |-> op.managed.serverKey,
     subscription |-> subscription, sink |-> op.sink,
     template |-> op.template, payload |-> op.payload, headers |-> op.headers]

\* ------------------------------------------------------- calling an op ----
\* a call takes the lowest free slot; it is made while nothing is executing
FreeSlot(i) ==
    /\ running = 0
    /\ ops[i].type = "none"
    /\ \A j \in Slots : j < i => ops[j].type # "none"

NoOtherInFlight(i) == \A j \in Slots \ {i} : ~InFlight(ops[j])

\* the slots after a call that leaves `op` in slot i
Called(i, op) ==
    [j \in Slots |-> IF j = i
                     THEN [op EXCEPT !.solo = NoOtherInFlight(i),
                                     !.snap = IF NoOtherInFlight(i)
                                              THEN Snapshot ELSE NoSnap]
                     ELSE Disturb(ops[j])]

Set(i, op) == [ops EXCEPT ![i] = op]

\* the operation is at its return statement, or is throwing: it still holds
\* the execution context, and Returns hands the outcome to the caller
Finish(op) == [op EXCEPT !.pc = "return", !.await = "none"]

Fail(op, message) ==
    [op EXCEPT !.pc = "throw", !.await = "none", !.error = message]

\* the step that follows `pc` in a method body, "return" after the last
After(program, pc) ==
    LET n == CHOOSE x \in 1..Len(program) : program[x] = pc
    IN  IF n = Len(program) THEN "return" ELSE program[n + 1]

Stepping(i, type, pc) ==
    /\ running = i
    /\ ops[i].type = type
    /\ ops[i].pc = pc
    /\ ops[i].await = "none"

\* the number reconnectConnection returns
ReturnValue(op) ==
    Cardinality(DOMAIN op.subsToReconnect)
    + Cardinality(DOMAIN op.repliesToReconnect)

\* the promise of the operation settles and the execution context is free;
\* the operations in flight stay in the order they were called in
Returns(i) ==
    /\ running = i
    /\ ops[i].pc \in {"return", "throw"}
    /\ ops' = [j \in Slots |-> IF j < i THEN ops[j]
                                ELSE IF j < MaxOps THEN ops[j + 1] ELSE Idle]
    /\ running' = 0
    /\ UNCHANGED <<connections, subscriptions, replies, subscriptionCounts,
                   replyCounts, connectorCalls, closeCalled, streams>>

KeyActiveNever(store, key) == FALSE

\* this.subscriptions.has(key) / this.replies.has(key) at the top of start*
KeyActive(store, key) == key \in DOMAIN store

\* getConnection: is there an entry for the normalized identity of url
getConnectionExisting(url) == normalizeServerUrl(url) \in DOMAIN connections

\* getConnection up to its first await: the existing entry is returned, else
\* the connector is invoked with the connect options of url.  The caller
\* suspends either way: on the connector, or on the promise of the entry.
CanGetConnection(url) ==
    getConnectionExisting(url) \/ Invocations < MaxConnects

GetConnection(op, url) ==
    IF getConnectionExisting(url)
    THEN [op EXCEPT !.await = "getConnection",
                    !.managed = connections[normalizeServerUrl(url)]]
    ELSE [op EXCEPT !.await = "connector", !.call = NextConnection(url)]

ConnectorCallsAfter(url) ==
    IF getConnectionExisting(url) THEN connectorCalls
    ELSE Invoked(url)

\* a start* call up to its first await: it returns at once if the key is
\* active in its registry, else it suspends in getConnection
Start(i, op, store) ==
    IF KeyActive(store, op.key)
    THEN /\ ops' = Called(i, Finish(op))
         /\ running' = i
         /\ UNCHANGED connectorCalls
    ELSE /\ CanGetConnection(op.url)
         /\ ops' = Called(i, GetConnection(op, op.url))
         /\ connectorCalls' = ConnectorCallsAfter(op.url)
         /\ UNCHANGED running

\* startSubscription(serverUrl, subject, sink, key), up to its first await
StartSubscription(i, url, subject, sink, key) ==
    /\ FreeSlot(i)
    /\ Start(i, [Idle EXCEPT !.type = "startSubscription", !.pc = "start",
                             !.url = url, !.subject = subject, !.sink = sink,
                             !.key = key], subscriptions)
    /\ UNCHANGED <<connections, subscriptions, replies, subscriptionCounts,
                   replyCounts, closeCalled, streams>>

\* startReplyHandler(serverUrl, subject, template, payload, sink, key, headers)
StartReplyHandler(i, url, subject, template, payload, sink, key, headers) ==
    /\ FreeSlot(i)
    /\ Start(i, [Idle EXCEPT !.type = "startReplyHandler", !.pc = "start",
                             !.url = url, !.subject = subject, !.sink = sink,
                             !.key = key, !.template = template,
                             !.payload = payload, !.headers = headers],
             replies)
    /\ UNCHANGED <<connections, subscriptions, replies, subscriptionCounts,
                   replyCounts, closeCalled, streams>>

\* stopSubscription(key): synchronous
StopSubscription(key) ==
    /\ running = 0
    /\ LET r == stopContext(subscriptions, key, subscriptionCounts, streams)
       IN  /\ subscriptions' = r.store
           /\ subscriptionCounts' = r.counts
           /\ streams' = r.streams
    /\ ops' = [j \in Slots |-> Disturb(ops[j])]
    /\ UNCHANGED <<connections, replies, replyCounts, connectorCalls,
                   closeCalled, running>>

\* stopReplyHandler(key): synchronous
StopReplyHandler(key) ==
    /\ running = 0
    /\ LET r == stopContext(replies, key, replyCounts, streams)
       IN  /\ replies' = r.store
           /\ replyCounts' = r.counts
           /\ streams' = r.streams
    /\ ops' = [j \in Slots |-> Disturb(ops[j])]
    /\ UNCHANGED <<connections, subscriptions, subscriptionCounts,
                   connectorCalls, closeCalled, running>>

\* sendRequest(serverUrl, subject, payload, options, headers), to its await
SendRequest(i, url, subject) ==
    /\ FreeSlot(i)
    /\ CanGetConnection(url)
    /\ ops' = Called(i, GetConnection(
                  [Idle EXCEPT !.type = "sendRequest", !.pc = "start",
                               !.url = url, !.subject = subject,
                               !.payload = "data"], url))
    /\ connectorCalls' = ConnectorCallsAfter(url)
    /\ UNCHANGED <<connections, subscriptions, replies, subscriptionCounts,
                   replyCounts, closeCalled, streams, running>>

\* publish(serverUrl, subject, payload, headers), up to its first await
Publish(i, url, subject) ==
    /\ FreeSlot(i)
    /\ CanGetConnection(url)
    /\ ops' = Called(i, GetConnection(
                  [Idle EXCEPT !.type = "publish", !.pc = "start",
                               !.url = url, !.subject = subject,
                               !.payload = "data"], url))
    /\ connectorCalls' = ConnectorCallsAfter(url)
    /\ UNCHANGED <<connections, subscriptions, replies, subscriptionCounts,
                   replyCounts, closeCalled, streams, running>>

\* ------------------------------------------------------ continuations ----
\* getConnection after `await this.connector(options)`: the new entry is set
\* in the table (over whatever is there) and returned
ConnectorResolves(i) ==
    /\ running = 0
    /\ ops[i].await = "connector"
    /\ LET serverKey == normalizeServerUrl(ops[i].url)
           managed == [serverKey |-> serverKey, rawUrl |-> ops[i].url,
                       connection |-> ops[i].call, markedClosed |-> FALSE]
       IN  /\ connections' = Put(connections, serverKey, managed)
           /\ ops' = Set(i, [ops[i] EXCEPT !.await = "getConnection",
                                           !.managed = managed,
                                           !.call = NoConnection])
    /\ UNCHANGED <<subscriptions, replies, subscriptionCounts, replyCounts,
                   connectorCalls, closeCalled, streams, running>>

\* the connector rejects: getConnection and its caller (and the
\* reconnectConnection that awaits that caller) reject with it
ConnectorRejects(i) ==
    /\ running = 0
    /\ ops[i].await = "connector"
    /\ ops' = Set(i, Fail(ops[i], "connect failed"))
    /\ running' = i
    /\ UNCHANGED <<connections, subscriptions, replies, subscriptionCounts,
                   replyCounts, connectorCalls, closeCalled, streams>>

StartingInSubscriptions(op) ==
    IF op.type \in {"startSubscription", "startReplyHandler"}
    THEN "subscription" ELSE "none"

\* which registry the operation is about to register in: its own, or that of
\* the startSubscription/startReplyHandler reconnectConnection is awaiting
Starting(op) ==
    CASE op.type = "startSubscription" -> "subscription"
      [] op.type = "startReplyHandler" -> "reply"
      [] op.type = "reconnectConnection" /\ op.pc = "restoreSubscriptions"
         -> "subscription"
      [] op.type = "reconnectConnection" /\ op.pc = "restoreReplies" -> "reply"
      [] OTHER -> "none"

\* the operation once its start* has registered: a top-level call returns,
\* reconnectConnection stays suspended on the promise of the call it made
Started(op) ==
    IF op.type = "reconnectConnection"
    THEN [op EXCEPT !.await = "started"]
    ELSE Finish(op)

\* startSubscription after `await this.getConnection(serverUrl)`: subscribe,
\* register the context under the key, increment the counter
SubscriptionStarts(i) ==
    /\ running = 0
    /\ ops[i].await = "getConnection"
    /\ Starting(ops[i]) = "subscription"
    /\ OpenStreams < MaxStreams
    /\ streams' = Subscribed(streams, ops[i].managed.connection)
    /\ subscriptions' = Put(subscriptions, ops[i].key,
                            Context(ops[i], Stream(ops[i].managed.connection)))
    /\ subscriptionCounts' = incrementCount(subscriptionCounts,
                                            ops[i].managed.serverKey,
                                            ops[i].subject)
    /\ ops' = Set(i, Started(ops[i]))
    /\ running' = IF ops[i].type = "reconnectConnection" THEN 0 ELSE i
    /\ UNCHANGED <<connections, replies, replyCounts, connectorCalls,
                   closeCalled>>

\* startReplyHandler after `await this.getConnection(serverUrl)`
ReplyHandlerStarts(i) ==
    /\ running = 0
    /\ ops[i].await = "getConnection"
    /\ Starting(ops[i]) = "reply"
    /\ OpenStreams < MaxStreams
    /\ streams' = Subscribed(streams, ops[i].managed.connection)
    /\ replies' = Put(replies, ops[i].key,
                      Context(ops[i], Stream(ops[i].managed.connection)))
    /\ replyCounts' = incrementCount(replyCounts, ops[i].managed.serverKey,
                                     ops[i].subject)
    /\ ops' = Set(i, Started(ops[i]))
    /\ running' = IF ops[i].type = "reconnectConnection" THEN 0 ELSE i
    /\ UNCHANGED <<connections, subscriptions, subscriptionCounts,
                   connectorCalls, closeCalled>>

\* connection.subscribe(subject) throws (a closed connection refuses it):
\* nothing is registered and the start* call rejects
SubscribeThrows(i) ==
    /\ running = 0
    /\ ops[i].await = "getConnection"
    /\ Starting(ops[i]) # "none"
    /\ ops[i].managed.connection \in closeCalled
    /\ ops' = Set(i, Fail(ops[i], "subscribe failed"))
    /\ running' = i
    /\ UNCHANGED <<connections, subscriptions, replies, subscriptionCounts,
                   replyCounts, connectorCalls, closeCalled, streams>>

\* sendRequest after getConnection: connection.request(...) is awaited
RequestSent(i) ==
    /\ running = 0
    /\ ops[i].type = "sendRequest"
    /\ ops[i].await = "getConnection"
    /\ ops' = Set(i, [ops[i] EXCEPT !.await = "request"])
    /\ UNCHANGED <<connections, subscriptions, replies, subscriptionCounts,
                   replyCounts, connectorCalls, closeCalled, streams, running>>

\* the response arrives: sendRequest returns the LogBlock (Request, Response)
RequestResolves(i) ==
    /\ running = 0
    /\ ops[i].await = "request"
    /\ ops' = Set(i, Finish(ops[i]))
    /\ running' = i
    /\ UNCHANGED <<connections, subscriptions, replies, subscriptionCounts,
                   replyCounts, connectorCalls, closeCalled, streams>>

RequestFailedSwallowed(op) ==
    Finish([op EXCEPT !.log = Append(@, "Error")])

\* await connection.connection.request(...) rejects: sendRequest has no try,
\* the rejection is the outcome of the call
RequestFailed(op) == Fail(op, op.error)

\* timeout or transport failure: the awaited request rejects with it
RequestRejects(i) ==
    /\ running = 0
    /\ ops[i].await = "request"
    /\ ops' = Set(i, RequestFailed([ops[i] EXCEPT !.error = "request failed"]))
    /\ running' = i
    /\ UNCHANGED <<connections, subscriptions, replies, subscriptionCounts,
                   replyCounts, connectorCalls, closeCalled, streams>>

\* publish after getConnection: connection.publish(...), then flush() awaited
Published(i) ==
    /\ running = 0
    /\ ops[i].type = "publish"
    /\ ops[i].await = "getConnection"
    /\ ops' = Set(i, [ops[i] EXCEPT !.await = "flush"])
    /\ UNCHANGED <<connections, subscriptions, replies, subscriptionCounts,
                   replyCounts, connectorCalls, closeCalled, streams, running>>

\* flush resolves: publish returns the LogBlock (Published)
FlushResolves(i) ==
    /\ running = 0
    /\ ops[i].await = "flush"
    /\ ops' = Set(i, Finish(ops[i]))
    /\ running' = i
    /\ UNCHANGED <<connections, subscriptions, replies, subscriptionCounts,
                   replyCounts, connectorCalls, closeCalled, streams>>

\* flush rejects: publish rejects with it
FlushRejects(i) ==
    /\ running = 0
    /\ ops[i].await = "flush"
    /\ ops' = Set(i, Fail(ops[i], "flush failed"))
    /\ running' = i
    /\ UNCHANGED <<connections, subscriptions, replies, subscriptionCounts,
                   replyCounts, connectorCalls, closeCalled, streams>>

\* -------------------------------------------------------------- reset ----
ResetProgramCloseFirst ==
    <<"closeAll", "stopSubscriptions", "stopReplies", "clear", "settle">>

\* the statements of reset(), in order
ResetProgram ==
    <<"stopSubscriptions", "stopReplies", "closeAll", "clear", "settle">>

\* reset() is called
Reset(i) ==
    /\ FreeSlot(i)
    /\ ops' = Called(i, [Idle EXCEPT !.type = "reset",
                                     !.pc = ResetProgram[1]])
    /\ running' = i
    /\ UNCHANGED <<connections, subscriptions, replies, subscriptionCounts,
                   replyCounts, connectorCalls, closeCalled, streams>>

\* this.stopAll(this.subscriptions, this.subscriptionCounts)
ResetStopsSubscriptions(i) ==
    /\ Stepping(i, "reset", "stopSubscriptions")
    /\ LET r == stopAll(subscriptions, subscriptionCounts, streams)
       IN  /\ subscriptions' = r.store
           /\ subscriptionCounts' = r.counts
           /\ streams' = r.streams
    /\ ops' = Set(i, [ops[i] EXCEPT !.pc = After(ResetProgram, @)])
    /\ UNCHANGED <<connections, replies, replyCounts, connectorCalls,
                   closeCalled, running>>

\* this.stopAll(this.replies, this.replyCounts)
ResetStopsReplies(i) ==
    /\ Stepping(i, "reset", "stopReplies")
    /\ LET r == stopAll(replies, replyCounts, streams)
       IN  /\ replies' = r.store
           /\ replyCounts' = r.counts
           /\ streams' = r.streams
    /\ ops' = Set(i, [ops[i] EXCEPT !.pc = After(ResetProgram, @)])
    /\ UNCHANGED <<connections, subscriptions, subscriptionCounts,
                   connectorCalls, closeCalled, running>>

\* closings = every entry of the table mapped to entry.connection.close()
ResetClosesAll(i) ==
    /\ Stepping(i, "reset", "closeAll")
    /\ LET closings == {connections[k].connection : k \in DOMAIN connections}
       IN  /\ closeCalled' = closeCalled \cup closings
           /\ ops' = Set(i, [ops[i] EXCEPT !.pc = After(ResetProgram, @),
                                           !.closings = closings])
    /\ UNCHANGED <<connections, subscriptions, replies, subscriptionCounts,
                   replyCounts, connectorCalls, streams, running>>

\* this.connections.clear()
ResetClears(i) ==
    /\ Stepping(i, "reset", "clear")
    /\ connections' = EmptyMap
    /\ ops' = Set(i, [ops[i] EXCEPT !.pc = After(ResetProgram, @)])
    /\ UNCHANGED <<subscriptions, replies, subscriptionCounts, replyCounts,
                   connectorCalls, closeCalled, streams, running>>

\* await Promise.allSettled(closings): reset suspends
ResetAwaits(i) ==
    /\ Stepping(i, "reset", "settle")
    /\ ops' = Set(i, [ops[i] EXCEPT !.await = "allSettled"])
    /\ running' = 0
    /\ UNCHANGED <<connections, subscriptions, replies, subscriptionCounts,
                   replyCounts, connectorCalls, closeCalled, streams>>

allSettledAsAll(rejected) == rejected = {}

\* Promise.allSettled fulfils whichever of its promises reject
allSettled(rejected) == TRUE

\* every close() has settled, those of `rejected` by rejecting
ResetSettles(i, rejected) ==
    /\ running = 0
    /\ ops[i].await = "allSettled"
    /\ rejected \subseteq ops[i].closings
    /\ ops' = Set(i, IF allSettled(rejected)
                     THEN [ops[i] EXCEPT !.await = "none",
                                         !.pc = After(ResetProgram, @),
                                         !.closeFailed = rejected]
                     ELSE [Fail(ops[i], "close failed")
                             EXCEPT !.closeFailed = rejected])
    /\ running' = i
    /\ UNCHANGED <<connections, subscriptions, replies, subscriptionCounts,
                   replyCounts, connectorCalls, closeCalled, streams>>

\* ------------------------------------------------- reconnectConnection ----
ReconnectProgramTeardownFirst ==
    <<"capture", "stopSubscriptions", "stopReplies", "connect", "close",
      "install", "restoreSubscriptions", "restoreReplies">>

ReconnectProgramNoReplies ==
    <<"capture", "connect", "stopSubscriptions", "stopReplies", "close",
      "install", "restoreSubscriptions">>

\* the statements of reconnectConnection(), in order, after the check that
\* the identity has an entry
ReconnectProgram ==
    <<"capture", "connect", "stopSubscriptions", "stopReplies", "close",
      "install", "restoreSubscriptions", "restoreReplies">>

\* this.connections.get(serverKey): the entry, or undefined
connectionsGet(serverKey) ==
    IF serverKey \in DOMAIN connections THEN connections[serverKey]
    ELSE NoManaged

NoEntryNever(existing) == FALSE

\* if (!existing)
NoEntry(existing) == existing = NoManaged

\* reconnectConnection(serverKey) is called: it throws without an entry
ReconnectConnection(i, serverKey) ==
    /\ FreeSlot(i)
    /\ LET op == [Idle EXCEPT !.type = "reconnectConnection",
                              !.serverKey = serverKey]
           existing == connectionsGet(serverKey)
       IN  ops' = Called(i, IF NoEntry(existing)
                            THEN Fail(op, "No connection found")
                            ELSE [op EXCEPT !.pc = ReconnectProgram[1],
                                            !.existing = existing])
    /\ running' = i
    /\ UNCHANGED <<connections, subscriptions, replies, subscriptionCounts,
                   replyCounts, connectorCalls, closeCalled, streams>>

\* what reconnectConnection keeps of the contexts bound to serverKey
Captured(store, serverKey, isReply) ==
    [k \in {x \in DOMAIN store : store[x].server = serverKey} |->
        [subject |-> store[k].subject, sink |-> store[k].sink,
         template |-> IF isReply THEN store[k].template ELSE Undefined,
         payload |-> IF isReply THEN store[k].payload ELSE Undefined,
         headers |-> IF isReply THEN store[k].headers ELSE Undefined]]

\* the two loops that fill subsToReconnect and repliesToReconnect
ReconnectCaptures(i) ==
    /\ Stepping(i, "reconnectConnection", "capture")
    /\ LET subs == Captured(subscriptions, ops[i].serverKey, FALSE)
           reps == Captured(replies, ops[i].serverKey, TRUE)
       IN  ops' = Set(i, [ops[i] EXCEPT !.pc = After(ReconnectProgram, @),
                                       !.subsToReconnect = subs,
                                       !.repliesToReconnect = reps,
                                       !.todoSubscriptions = DOMAIN subs,
                                       !.todoReplies = DOMAIN reps])
    /\ UNCHANGED <<connections, subscriptions, replies, subscriptionCounts,
                   replyCounts, connectorCalls, closeCalled, streams, running>>

\* newConnection = await this.connector(buildConnectOptions(existing.rawUrl))
ReconnectConnects(i) ==
    /\ Stepping(i, "reconnectConnection", "connect")
    /\ Invocations < MaxConnects
    /\ connectorCalls' = Invoked(ops[i].existing.rawUrl)
    /\ ops' = Set(i, [ops[i] EXCEPT !.await = "newConnection",
                                    !.call = NextConnection(ops[i].existing.rawUrl)])
    /\ running' = 0
    /\ UNCHANGED <<connections, subscriptions, replies, subscriptionCounts,
                   replyCounts, closeCalled, streams>>

\* the connector resolves with the new connection
NewConnectionResolves(i) ==
    /\ running = 0
    /\ ops[i].await = "newConnection"
    /\ ops' = Set(i, [ops[i] EXCEPT !.await = "none",
                                    !.pc = After(ReconnectProgram, @),
                                    !.newConnection = ops[i].call,
                                    !.call = NoConnection])
    /\ running' = i
    /\ UNCHANGED <<connections, subscriptions, replies, subscriptionCounts,
                   replyCounts, connectorCalls, closeCalled, streams>>

\* the connector rejects: reconnectConnection rejects with it
NewConnectionRejects(i) ==
    /\ running = 0
    /\ ops[i].await = "newConnection"
    /\ ops' = Set(i, Fail(ops[i], "new connection failed"))
    /\ running' = i
    /\ UNCHANGED <<connections, subscriptions, replies, subscriptionCounts,
                   replyCounts, connectorCalls, closeCalled, streams>>

\* for (sub of subsToReconnect) this.stopContext(this.subscriptions, ...)
ReconnectStopsSubscriptions(i) ==
    /\ Stepping(i, "reconnectConnection", "stopSubscriptions")
    /\ LET r == StopKeys(subscriptions, DOMAIN ops[i].subsToReconnect,
                         subscriptionCounts, streams)
       IN  /\ subscriptions' = r.store
           /\ subscriptionCounts' = r.counts
           /\ streams' = r.streams
    /\ ops' = Set(i, [ops[i] EXCEPT !.pc = After(ReconnectProgram, @)])
    /\ UNCHANGED <<connections, replies, replyCounts, connectorCalls,
                   closeCalled, running>>

\* for (reply of repliesToReconnect) this.stopContext(this.replies, ...)
ReconnectStopsReplies(i) ==
    /\ Stepping(i, "reconnectConnection", "stopReplies")
    /\ LET r == StopKeys(replies, DOMAIN ops[i].repliesToReconnect,
                         replyCounts, streams)
       IN  /\ replies' = r.store
           /\ replyCounts' = r.counts
           /\ streams' = r.streams
    /\ ops' = Set(i, [ops[i] EXCEPT !.pc = After(ReconnectProgram, @)])
    /\ UNCHANGED <<connections, subscriptions, subscriptionCounts,
                   connectorCalls, closeCalled, running>>

\* await existing.connection.close()
ReconnectCloses(i) ==
    /\ Stepping(i, "reconnectConnection", "close")
    /\ closeCalled' = closeCalled \cup {ops[i].existing.connection}
    /\ ops' = Set(i, [ops[i] EXCEPT !.await = "close"])
    /\ running' = 0
    /\ UNCHANGED <<connections, subscriptions, replies, subscriptionCounts,
                   replyCounts, connectorCalls, streams>>

\* close() of the old connection resolves
CloseResolves(i) ==
    /\ running = 0
    /\ ops[i].await = "close"
    /\ ops' = Set(i, [ops[i] EXCEPT !.await = "none",
                                    !.pc = After(ReconnectProgram, @)])
    /\ running' = i
    /\ UNCHANGED <<connections, subscriptions, replies, subscriptionCounts,
                   replyCounts, connectorCalls, closeCalled, streams>>

\* close() rejects: reconnectConnection rejects with it
CloseRejects(i) ==
    /\ running = 0
    /\ ops[i].await = "close"
    /\ ops' = Set(i, Fail(ops[i], "close failed"))
    /\ running' = i
    /\ UNCHANGED <<connections, subscriptions, replies, subscriptionCounts,
                   replyCounts, connectorCalls, closeCalled, streams>>

\* this.connections.set(serverKey, managed) with the new connection
ReconnectInstalls(i) ==
    /\ Stepping(i, "reconnectConnection", "install")
    /\ connections' = Put(connections, ops[i].serverKey,
                          [serverKey |-> ops[i].serverKey,
                           rawUrl |-> ops[i].existing.rawUrl,
                           connection |-> ops[i].newConnection,
                           markedClosed |-> FALSE])
    /\ ops' = Set(i, [ops[i] EXCEPT !.pc = After(ReconnectProgram, @)])
    /\ UNCHANGED <<subscriptions, replies, subscriptionCounts, replyCounts,
                   connectorCalls, closeCalled, streams, running>>

\* reconnectConnection calls start* for a captured context and suspends on
\* its promise; the call runs up to its own first await
Restore(op, store, key, captured) ==
    LET call == [op EXCEPT !.url = op.existing.rawUrl, !.key = key,
                           !.subject = captured.subject,
                           !.sink = captured.sink,
                           !.template = captured.template,
                           !.payload = captured.payload,
                           !.headers = captured.headers]
    IN  IF KeyActive(store, key) THEN [call EXCEPT !.await = "started"]
        ELSE GetConnection(call, call.url)

\* await this.startSubscription(existing.rawUrl, subject, sink, key), for
\* the captured subscriptions one after another
ReconnectRestoresSubscription(i) ==
    /\ Stepping(i, "reconnectConnection", "restoreSubscriptions")
    /\ IF ops[i].todoSubscriptions = {}
       THEN /\ ops' = Set(i, [ops[i] EXCEPT !.pc = After(ReconnectProgram, @)])
            /\ UNCHANGED <<connectorCalls, running>>
       ELSE \E key \in ops[i].todoSubscriptions :
              /\ KeyActive(subscriptions, key)
                 \/ CanGetConnection(ops[i].existing.rawUrl)
              /\ ops' = Set(i, Restore(ops[i], subscriptions, key,
                                       ops[i].subsToReconnect[key]))
              /\ connectorCalls' =
                    IF KeyActive(subscriptions, key) THEN connectorCalls
                    ELSE ConnectorCallsAfter(ops[i].existing.rawUrl)
              /\ running' = 0
    /\ UNCHANGED <<connections, subscriptions, replies, subscriptionCounts,
                   replyCounts, closeCalled, streams>>

\* await this.startReplyHandler(existing.rawUrl, subject, template, payload,
\* sink, key, headers), for the captured reply handlers one after another
ReconnectRestoresReply(i) ==
    /\ Stepping(i, "reconnectConnection", "restoreReplies")
    /\ IF ops[i].todoReplies = {}
       THEN /\ ops' = Set(i, [ops[i] EXCEPT !.pc = After(ReconnectProgram, @)])
            /\ UNCHANGED <<connectorCalls, running>>
       ELSE \E key \in ops[i].todoReplies :
              /\ KeyActive(replies, key)
                 \/ CanGetConnection(ops[i].existing.rawUrl)
              /\ ops' = Set(i, Restore(ops[i], replies, key,
                                       ops[i].repliesToReconnect[key]))
              /\ connectorCalls' =
                    IF KeyActive(replies, key) THEN connectorCalls
                    ELSE ConnectorCallsAfter(ops[i].existing.rawUrl)
              /\ running' = 0
    /\ UNCHANGED <<connections, subscriptions, replies, subscriptionCounts,
                   replyCounts, closeCalled, streams>>

\* the awaited start* call has returned: the loop goes on
ReconnectResumes(i) ==
    /\ running = 0
    /\ ops[i].await = "started"
    /\ ops' = Set(i, [ops[i] EXCEPT
                 !.await = "none",
                 !.todoSubscriptions =
                     IF ops[i].pc = "restoreSubscriptions"
                     THEN @ \ {ops[i].key} ELSE @,
                 !.todoReplies =
                     IF ops[i].pc = "restoreReplies"
                     THEN @ \ {ops[i].key} ELSE @])
    /\ running' = i
    /\ UNCHANGED <<connections, subscriptions, replies, subscriptionCounts,
                   replyCounts, connectorCalls, closeCalled, streams>>

\* --------------------------------------------------------------- Next ----
\* ------------------------------------------------------ pullJetStream ----
\* nc.jetstream is defined: whether a physical connection exposes JetStream
\* is a property of the server the connector reached
JetStreamServers == {buildConnectOptions(UrlA).servers}

HasJetStreamAlways(connection) == TRUE

HasJetStream(connection) == connection.options.servers \in JetStreamServers

markConnectionClosedRemoves(serverKey) == Remove(connections, serverKey)

\* markConnectionClosed(serverKey): the entry, if there is one, is marked
markConnectionClosed(serverKey) ==
    IF serverKey \in DOMAIN connections
    THEN [connections EXCEPT ![serverKey].markedClosed = TRUE]
    ELSE connections

\* appendLogBlock(sink, {meta, items: [{title, ...}]}) by the operation
Logged(op, title) == [op EXCEPT !.log = Append(@, title)]

PullErrorRaised(op) == Fail(op, "pull failed")

\* the catch of the outer try: a "Pull error" record, and a normal return
PullError(op) == Finish(Logged(op, "Pull error"))

\* pullJetStream(serverUrl, stream, durable, options, sink), to its await
PullJetStream(i, url) ==
    /\ FreeSlot(i)
    /\ CanGetConnection(url)
    /\ ops' = Called(i, GetConnection(
                  [Idle EXCEPT !.type = "pullJetStream", !.pc = "start",
                               !.url = url, !.sink = "out1"], url))
    /\ connectorCalls' = ConnectorCallsAfter(url)
    /\ UNCHANGED <<connections, subscriptions, replies, subscriptionCounts,
                   replyCounts, closeCalled, streams, running>>

\* after getConnection: without JetStream the call throws; else the
\* consumer lookup js.consumers.get(stream, durable) is awaited
PullStarts(i) ==
    /\ running = 0
    /\ ops[i].type = "pullJetStream"
    /\ ops[i].await = "getConnection"
    /\ IF HasJetStream(ops[i].managed.connection)
       THEN /\ ops' = Set(i, [ops[i] EXCEPT !.await = "consumer",
                                            !.jsCalls = {"consumers.get"}])
            /\ UNCHANGED running
       ELSE /\ ops' = Set(i, Fail(ops[i],
                   "JetStream is not available on this connection"))
            /\ running' = i
    /\ UNCHANGED <<connections, subscriptions, replies, subscriptionCounts,
                   replyCounts, connectorCalls, closeCalled, streams>>

\* the consumer is found: consumer.fetch({max_messages, expires}) is awaited
ConsumerResolves(i) ==
    /\ running = 0
    /\ ops[i].await = "consumer"
    /\ ops' = Set(i, [ops[i] EXCEPT !.await = "fetch",
                                    !.jsCalls = @ \cup {"fetch"}])
    /\ UNCHANGED <<connections, subscriptions, replies, subscriptionCounts,
                   replyCounts, connectorCalls, closeCalled, streams, running>>

\* the consumer lookup fails
ConsumerRejects(i) ==
    /\ running = 0
    /\ ops[i].await = "consumer"
    /\ ops' = Set(i, PullError(ops[i]))
    /\ running' = i
    /\ UNCHANGED <<connections, subscriptions, replies, subscriptionCounts,
                   replyCounts, connectorCalls, closeCalled, streams>>

\* fetch yields the iterator: the for await loop awaits its first message
FetchResolves(i) ==
    /\ running = 0
    /\ ops[i].await = "fetch"
    /\ ops' = Set(i, [ops[i] EXCEPT !.await = "next"])
    /\ UNCHANGED <<connections, subscriptions, replies, subscriptionCounts,
                   replyCounts, connectorCalls, closeCalled, streams, running>>

\* fetch fails
FetchRejects(i) ==
    /\ running = 0
    /\ ops[i].await = "fetch"
    /\ ops' = Set(i, PullError(ops[i]))
    /\ running' = i
    /\ UNCHANGED <<connections, subscriptions, replies, subscriptionCounts,
                   replyCounts, connectorCalls, closeCalled, streams>>

\* if (msg.ack) await Promise.resolve(msg.ack()): what the loop body awaits
\* after the "Received" record
AfterReceived(op, hasAck) ==
    IF hasAck
    THEN [op EXCEPT !.ackable = @ + 1, !.acks = @ + 1, !.await = "ack"]
    ELSE [op EXCEPT !.await = "next"]

\* the iterator yields a message: a "Received" record, then its ack() if it
\* has one
NextYields(i, hasAck) ==
    /\ running = 0
    /\ ops[i].await = "next"
    /\ ops[i].received < MaxBatch
    /\ ops' = Set(i, AfterReceived(
                  Logged([ops[i] EXCEPT !.received = @ + 1], "Received"),
                  hasAck))
    /\ UNCHANGED <<connections, subscriptions, replies, subscriptionCounts,
                   replyCounts, connectorCalls, closeCalled, streams, running>>

\* the acknowledgement succeeds: the loop awaits the next message
AckResolves(i) ==
    /\ running = 0
    /\ ops[i].await = "ack"
    /\ ops' = Set(i, [ops[i] EXCEPT !.await = "next"])
    /\ UNCHANGED <<connections, subscriptions, replies, subscriptionCounts,
                   replyCounts, connectorCalls, closeCalled, streams, running>>

AckFailedAborts(op) == Finish(Logged(op, "Ack error"))

\* the inner catch: an "Ack error" record, and the loop goes on
AckFailed(op) == [Logged(op, "Ack error") EXCEPT !.await = "next"]

\* the acknowledgement fails; a message that names DISCONNECT or CONNECTION
\* marks the entry of the identity closed
AckRejects(i, disconnect) ==
    /\ running = 0
    /\ ops[i].await = "ack"
    /\ connections' = IF disconnect
                      THEN markConnectionClosed(ops[i].managed.serverKey)
                      ELSE connections
    /\ ops' = Set(i, AckFailed(ops[i]))
    /\ UNCHANGED <<subscriptions, replies, subscriptionCounts, replyCounts,
                   connectorCalls, closeCalled, streams, running>>

AfterBatchAlways(op) == Logged(op, "No messages available")

\* if (received === 0): the "No messages available" record
AfterBatch(op) ==
    IF op.received = 0 THEN Logged(op, "No messages available") ELSE op

\* the iterator is done
NextDone(i) ==
    /\ running = 0
    /\ ops[i].await = "next"
    /\ ops' = Set(i, Finish(AfterBatch(ops[i])))
    /\ running' = i
    /\ UNCHANGED <<connections, subscriptions, replies, subscriptionCounts,
                   replyCounts, connectorCalls, closeCalled, streams>>

\* iterating the batch fails
NextThrows(i) ==
    /\ running = 0
    /\ ops[i].await = "next"
    /\ ops' = Set(i, PullError(ops[i]))
    /\ running' = i
    /\ UNCHANGED <<connections, subscriptions, replies, subscriptionCounts,
                   replyCounts, connectorCalls, closeCalled, streams>>

\* the stream of a registered context fails for good: its consume loop
\* catches the error, appends an "Error" record to the sink of the context
\* and ends; the context stays registered
LoopEnded(store, key) == [store EXCEPT ![key].subscription.ended = TRUE]

SubscriptionLoopEnds(key) ==
    /\ running = 0
    /\ key \in DOMAIN subscriptions
    /\ ~subscriptions[key].subscription.ended
    /\ subscriptions' = LoopEnded(subscriptions, key)
    /\ UNCHANGED <<connections, replies, subscriptionCounts, replyCounts,
                   connectorCalls, closeCalled, streams, ops, running>>

ReplyLoopEnds(key) ==
    /\ running = 0
    /\ key \in DOMAIN replies
    /\ ~replies[key].subscription.ended
    /\ replies' = LoopEnded(replies, key)
    /\ UNCHANGED <<connections, subscriptions, subscriptionCounts,
                   replyCounts, connectorCalls, closeCalled, streams, ops,
                   running>>

\* the try block of pullJetStream as the rest of the session sees it: it
\* changes nothing but the mark an acknowledgement failure sets, and the call
\* returns normally.  (PullNext below takes the block await by await.)
PullBatch(i, disconnect) ==
    /\ running = 0
    /\ ops[i].await = "consumer"
    /\ connections' = IF disconnect
                      THEN markConnectionClosed(ops[i].managed.serverKey)
                      ELSE connections
    /\ ops' = Set(i, Finish(ops[i]))
    /\ running' = i
    /\ UNCHANGED <<subscriptions, replies, subscriptionCounts, replyCounts,
                   connectorCalls, closeCalled, streams>>

Next ==
    \/ \E i \in Slots, c \in SubscribeCalls :
          StartSubscription(i, c.url, c.subject, c.sink, c.key)
    \/ \E i \in Slots, c \in ReplyCalls :
          StartReplyHandler(i, c.url, c.subject, c.template, c.payload,
                            c.sink, c.key, c.headers)
    \/ \E key \in Keys : StopSubscription(key)
    \/ \E key \in Keys : StopReplyHandler(key)
    \/ \E i \in Slots : SendRequest(i, UrlB, <<"s">>)
    \/ \E i \in Slots : Publish(i, UrlAPath, <<"t">>)
    \/ \E i \in Slots : Reset(i)
    \/ \E i \in Slots, serverKey \in ServerKeys : ReconnectConnection(i, serverKey)
    \/ \E i \in Slots : ConnectorResolves(i)
    \/ \E i \in Slots : ConnectorRejects(i)
    \/ \E i \in Slots : SubscriptionStarts(i)
    \/ \E i \in Slots : ReplyHandlerStarts(i)
    \/ \E i \in Slots : SubscribeThrows(i)
    \/ \E i \in Slots : RequestSent(i)
    \/ \E i \in Slots : RequestResolves(i)
    \/ \E i \in Slots : RequestRejects(i)
    \/ \E i \in Slots : Published(i)
    \/ \E i \in Slots : FlushResolves(i)
    \/ \E i \in Slots : FlushRejects(i)
    \/ \E i \in Slots : ResetStopsSubscriptions(i)
    \/ \E i \in Slots : ResetStopsReplies(i)
    \/ \E i \in Slots : ResetClosesAll(i)
    \/ \E i \in Slots : ResetClears(i)
    \/ \E i \in Slots : ResetAwaits(i)
    \/ \E i \in Slots : \E rejected \in SUBSET ops[i].closings :
          ResetSettles(i, rejected)
    \/ \E i \in Slots : ReconnectCaptures(i)
    \/ \E i \in Slots : ReconnectConnects(i)
    \/ \E i \in Slots : NewConnectionResolves(i)
    \/ \E i \in Slots : NewConnectionRejects(i)
    \/ \E i \in Slots : ReconnectStopsSubscriptions(i)
    \/ \E i \in Slots : ReconnectStopsReplies(i)
    \/ \E i \in Slots : ReconnectCloses(i)
    \/ \E i \in Slots : CloseResolves(i)
    \/ \E i \in Slots : CloseRejects(i)
    \/ \E i \in Slots : ReconnectInstalls(i)
    \/ \E i \in Slots : ReconnectRestoresSubscription(i)
    \/ \E i \in Slots : ReconnectRestoresReply(i)
    \/ \E i \in Slots : ReconnectResumes(i)
    \/ \E i \in Slots : Returns(i)

Spec == Init /\ [][Next]_vars

\* a session on which every operation but reconnectConnection is called,
\* pullJetStream with its try block in one step, and whose streams may fail
QuietNext ==
    \/ \E i \in Slots, c \in {x \in SubscribeCalls : x.url = UrlA} :
          StartSubscription(i, c.url, c.subject, c.sink, c.key)
    \/ \E i \in Slots, c \in {x \in ReplyCalls : x.url = UrlA} :
          StartReplyHandler(i, c.url, c.subject, c.template, c.payload,
                            c.sink, c.key, c.headers)
    \/ \E key \in Keys : StopSubscription(key)
    \/ \E key \in Keys : StopReplyHandler(key)
    \/ \E i \in Slots : SendRequest(i, UrlB, <<"s">>)
    \/ \E i \in Slots : Publish(i, UrlAPath, <<"t">>)
    \/ \E i \in Slots, url \in {UrlA, UrlB} : PullJetStream(i, url)
    \/ \E i \in Slots : Reset(i)
    \/ \E i \in Slots : ConnectorResolves(i)
    \/ \E i \in Slots : ConnectorRejects(i)
    \/ \E i \in Slots : SubscriptionStarts(i)
    \/ \E i \in Slots : ReplyHandlerStarts(i)
    \/ \E i \in Slots : SubscribeThrows(i)
    \/ \E key \in Keys : SubscriptionLoopEnds(key)
    \/ \E key \in Keys : ReplyLoopEnds(key)
    \/ \E i \in Slots : RequestSent(i)
    \/ \E i \in Slots : RequestResolves(i)
    \/ \E i \in Slots : RequestRejects(i)
    \/ \E i \in Slots : Published(i)
    \/ \E i \in Slots : FlushResolves(i)
    \/ \E i \in Slots : FlushRejects(i)
    \/ \E i \in Slots : PullStarts(i)
    \/ \E i \in Slots, disconnect \in BOOLEAN : PullBatch(i, disconnect)
    \/ \E i \in Slots : ResetStopsSubscriptions(i)
    \/ \E i \in Slots : ResetStopsReplies(i)
    \/ \E i \in Slots : ResetClosesAll(i)
    \/ \E i \in Slots : ResetClears(i)
    \/ \E i \in Slots : ResetAwaits(i)
    \/ \E i \in Slots : \E rejected \in SUBSET ops[i].closings :
          ResetSettles(i, rejected)
    \/ \E i \in Slots : Returns(i)

QuietSpec == Init /\ [][QuietNext]_vars

\* a session on which only pullJetStream is called, its try block taken
\* await by await
PullNext ==
    \/ \E i \in Slots, url \in {UrlA, UrlB} : PullJetStream(i, url)
    \/ \E i \in Slots : ConnectorResolves(i)
    \/ \E i \in Slots : ConnectorRejects(i)
    \/ \E i \in Slots : PullStarts(i)
    \/ \E i \in Slots : ConsumerResolves(i)
    \/ \E i \in Slots : ConsumerRejects(i)
    \/ \E i \in Slots : FetchResolves(i)
    \/ \E i \in Slots : FetchRejects(i)
    \/ \E i \in Slots, hasAck \in BOOLEAN : NextYields(i, hasAck)
    \/ \E i \in Slots : AckResolves(i)
    \/ \E i \in Slots, disconnect \in BOOLEAN : AckRejects(i, disconnect)
    \/ \E i \in Slots : NextDone(i)
    \/ \E i \in Slots : NextThrows(i)
    \/ \E i \in Slots : Returns(i)

PullSpec == Init /\ [][PullNext]_vars

\* ------------------------------------------------------------ queries ----
\* connection.isClosed(): the client is closed once close() was called on it
isClosed(connection) == connection \in closeCalled

StatusIgnoresMark(entry) ==
    IF isClosed(entry.connection) THEN "disconnected" ELSE "connected"

\* entry.markedClosed || entry.connection.isClosed() ? "disconnected"
\*                                                    : "connected"
Status(entry) ==
    IF entry.markedClosed \/ isClosed(entry.connection)
    THEN "disconnected" ELSE "connected"

\* getConnectionStatus(serverKey)
getConnectionStatus(serverKey) ==
    LET connection == connectionsGet(serverKey)
    IN  IF connection = NoManaged THEN "unknown" ELSE Status(connection)

\* listConnections(): one row per entry of the table
listConnections ==
    {[server |-> connections[k].serverKey, url |-> connections[k].rawUrl,
      status |-> Status(connections[k])] : k \in DOMAIN connections}

\* ------------------------------------------- operations one at a time ----
\* no operation is in flight: the caller awaited every call it made
Quiescent == \A j \in Slots : ~InFlight(ops[j])

\* a subject with the character the counter keys are joined with
PipeSubject == <<"a", "|", "s">>

\* the calls of a caller who awaits each call before making the next
SerialSubscribeCalls == {
    [url |-> UrlA, subject |-> <<"s">>, sink |-> "out1", key |-> "k1"],
    [url |-> UrlAPath, subject |-> PipeSubject, sink |-> "out2", key |-> "k2"],
    [url |-> UrlB, subject |-> <<"s">>, sink |-> "out2", key |-> "k1"] }

SerialReplyCalls == {
    [url |-> UrlA, subject |-> <<"s">>, sink |-> "out1", key |-> "k1",
     template |-> "tpl", payload |-> Undefined, headers |-> Undefined],
    [url |-> UrlB, subject |-> PipeSubject, sink |-> "out2", key |-> "k2",
     template |-> Undefined, payload |-> "data", headers |-> "hdr"] }

SerialNext ==
    \/ \E i \in Slots, c \in SerialSubscribeCalls :
          Quiescent /\ StartSubscription(i, c.url, c.subject, c.sink, c.key)
    \/ \E i \in Slots, c \in SerialReplyCalls :
          Quiescent /\ StartReplyHandler(i, c.url, c.subject, c.template,
                                         c.payload, c.sink, c.key, c.headers)
    \/ \E key \in Keys : Quiescent /\ StopSubscription(key)
    \/ \E key \in Keys : Quiescent /\ StopReplyHandler(key)
    \/ \E i \in Slots : Quiescent /\ SendRequest(i, UrlB, <<"s">>)
    \/ \E i \in Slots : Quiescent /\ Publish(i, UrlAPath, <<"t">>)
    \/ \E i \in Slots : Quiescent /\ Reset(i)
    \/ \E i \in Slots : ConnectorResolves(i)
    \/ \E i \in Slots : ConnectorRejects(i)
    \/ \E i \in Slots : SubscriptionStarts(i)
    \/ \E i \in Slots : ReplyHandlerStarts(i)
    \/ \E i \in Slots : RequestSent(i)
    \/ \E i \in Slots : RequestResolves(i)
    \/ \E i \in Slots : RequestRejects(i)
    \/ \E i \in Slots : Published(i)
    \/ \E i \in Slots : FlushResolves(i)
    \/ \E i \in Slots : FlushRejects(i)
    \/ \E i \in Slots : ResetStopsSubscriptions(i)
    \/ \E i \in Slots : ResetStopsReplies(i)
    \/ \E i \in Slots : ResetClosesAll(i)
    \/ \E i \in Slots : ResetClears(i)
    \/ \E i \in Slots : ResetAwaits(i)
    \/ \E i \in Slots : \E rejected \in SUBSET ops[i].closings :
          ResetSettles(i, rejected)
    \/ \E i \in Slots : Returns(i)

\* a session whose caller awaits every operation before the next one
SerialSpec == Init /\ [][SerialNext]_vars

\* -------------------------------------------------- consume loops ----
\* if (template) / if (payload): undefined and "" are not configured
Truthy(s) == s \notin {Undefined, ""}

\* buildMsgHeaders(replyHeaders): the headers object respond() is given, or
\* undefined without configured headers
buildMsgHeaders(replyHeaders) ==
    [defined |-> Truthy(replyHeaders), entries |-> replyHeaders]

NoReplyAddressNever(msg) == FALSE

\* if (!msg.reply)
NoReplyAddress(msg) == ~Truthy(msg.reply)

ResponderPayloadFirst(template, payload) ==
    IF Truthy(payload) THEN "payload"
    ELSE IF Truthy(template) THEN "template" ELSE "none"

\* what handleReply answers a request with: if (template) ... if (payload)
Responder(template, payload) ==
    IF Truthy(template) THEN "template"
    ELSE IF Truthy(payload) THEN "payload" ELSE "none"

\* a record of a consume loop: its title(s), the message it is about, and
\* the body of its Reply item
Record(title, msg, reply) == [title |-> title, n |-> msg.n, reply |-> reply]

\* appendLogBlock(sink, {meta, items}) by a consume loop
Recorded(op, title, msg, reply) ==
    [op EXCEPT !.records = Append(@, Record(title, msg, reply))]

\* msg.respond(response, headers ? {headers} : undefined)
Responded(op, msg, response, threw) ==
    [op EXCEPT !.responses = Append(@,
        [n |-> msg.n, text |-> response,
         headers |-> buildMsgHeaders(op.headers), threw |-> threw])]

\* handleReply(msg, ...) to its end: it has no await.  A respond() that
\* throws rejects the promise the loop awaits.
handleReply(op, msg, threw) ==
    IF NoReplyAddress(msg)
    THEN Recorded(op, "Publish received (no reply)", msg, <<>>)
    ELSE LET by == Responder(op.template, op.payload)
             response == IF by = "template"
                         THEN interpolateTemplate(Text(op.template), msg)
                         ELSE Text(op.payload)
         IN  IF by = "none"
             THEN Recorded(op, "Request received without template or payload",
                           msg, <<>>)
             ELSE IF threw
             THEN [Responded(op, msg, response, TRUE)
                      EXCEPT !.error = "respond failed"]
             ELSE Recorded(Responded(op, msg, response, FALSE),
                           "Request, Reply", msg, response)

IsLoop(i) == ops[i].type = "consumeSubscription"

\* the registry of the context a loop serves
Registry(op) == IF op.isReply THEN replies ELSE subscriptions

\* the context is registered: its stream is subscribed
Serving(op) == op.key \in DOMAIN Registry(op)

\* the broker delivers a message to the stream of the loop
Delivers(i, msg) ==
    /\ running = 0
    /\ IsLoop(i)
    /\ ops[i].pc = "loop"
    /\ Serving(ops[i])
    /\ ops[i].arrived < MaxMessages
    /\ ops' = Set(i, [ops[i] EXCEPT
                  !.arrived = @ + 1,
                  !.queue = Append(@, [n |-> ops[i].arrived + 1,
                                       subject |-> msg.subject,
                                       reply |-> msg.reply, body |-> msg.body,
                                       json |-> msg.json,
                                       headers |-> msg.headers])])
    /\ UNCHANGED <<connections, subscriptions, replies, subscriptionCounts,
                   replyCounts, connectorCalls, closeCalled, streams, running>>

YieldedLast(queue) == queue[Len(queue)]

\* for await (const msg of subscription): the iterator yields the messages
\* in the order they arrived in
Yielded(queue) == Head(queue)

Without(queue, msg) == SelectSeq(queue, LAMBDA m : m.n # msg.n)

\* the loop body for one message: handleReply is called and awaited, or the
\* "Received" record is appended and the next message awaited
Handled(op, msg, threw) ==
    IF op.isReply
    THEN [handleReply(op, msg, threw) EXCEPT !.await = "handleReply"]
    ELSE Recorded(op, "Received", msg, <<>>)

\* the loop takes the message the iterator yields
LoopTakes(i, threw) ==
    /\ running = 0
    /\ IsLoop(i)
    /\ ops[i].await = "next"
    /\ ops[i].queue # <<>>
    /\ LET msg == Yielded(ops[i].queue)
       IN  ops' = Set(i, Handled([ops[i] EXCEPT
                                     !.queue = Without(@, msg),
                                     !.taken = Append(@, msg.n)],
                                 msg, threw))
    /\ UNCHANGED <<connections, subscriptions, replies, subscriptionCounts,
                   replyCounts, connectorCalls, closeCalled, streams, running>>

LoopErrorRetries(op) ==
    [op EXCEPT !.records = Append(@, [title |-> "Error", n |-> 0,
                                      reply |-> <<>>]),
               !.await = "next"]

\* the catch of consumeSubscription: an "Error" record, and the loop is over
LoopError(op) ==
    Finish([op EXCEPT !.records = Append(@, [title |-> "Error", n |-> 0,
                                             reply |-> <<>>])])

\* await this.handleReply(...) resumes: the next message is awaited, or the
\* rejection is caught
LoopResumes(i) ==
    /\ running = 0
    /\ IsLoop(i)
    /\ ops[i].await = "handleReply"
    /\ IF ops[i].error = "none"
       THEN /\ ops' = Set(i, [ops[i] EXCEPT !.await = "next"])
            /\ UNCHANGED running
       ELSE /\ ops' = Set(i, LoopError(ops[i]))
            /\ running' = i
    /\ UNCHANGED <<connections, subscriptions, replies, subscriptionCounts,
                   replyCounts, connectorCalls, closeCalled, streams>>

\* the stream fails for good: the iterator throws
StreamFails(i) ==
    /\ running = 0
    /\ IsLoop(i)
    /\ ops[i].await = "next"
    /\ ops' = Set(i, LoopError([ops[i] EXCEPT !.error = "stream failed"]))
    /\ running' = i
    /\ UNCHANGED <<connections, subscriptions, replies, subscriptionCounts,
                   replyCounts, connectorCalls, closeCalled, streams>>

\* the stream was unsubscribed: the iterator is done, with or without the
\* messages still queued, and the loop returns
StreamEnds(i) ==
    /\ running = 0
    /\ IsLoop(i)
    /\ ops[i].await = "next"
    /\ ~Serving(ops[i])
    /\ ops' = Set(i, Finish(ops[i]))
    /\ running' = i
    /\ UNCHANGED <<connections, subscriptions, replies, subscriptionCounts,
                   replyCounts, connectorCalls, closeCalled, streams>>

\* the reply settings the handlers are started with: a template, a payload,
\* both, neither, and an empty template
ReplySettings == {
    [template |-> "tpl", payload |-> Undefined, headers |-> Undefined],
    [template |-> Undefined, payload |-> "data", headers |-> "hdr"],
    [template |-> "tpl", payload |-> "data", headers |-> "hdr"],
    [template |-> Undefined, payload |-> Undefined, headers |-> Undefined],
    [template |-> "", payload |-> "data", headers |-> Undefined] }

\* the consumeSubscription(...) call of a start*: the loop runs to its
\* first await
consumeSubscription(managed, subject, sink, key, isReply, settings) ==
    [Idle EXCEPT !.type = "consumeSubscription", !.pc = "loop",
                 !.await = "next", !.managed = managed, !.subject = subject,
                 !.sink = sink, !.key = key, !.isReply = isReply,
                 !.template = settings.template,
                 !.payload = settings.payload,
                 !.headers = settings.headers]

\* the session once startSubscription(UrlA, "s", out1, k1) and
\* startReplyHandler(UrlA, "s", template, payload, out1, k1, headers) have
\* returned: one connection, a context in each registry, and their two
\* consume loops awaiting their first message
LoopInit ==
    \E settings \in ReplySettings :
        LET serverKey == normalizeServerUrl(UrlA)
            connection == [options |-> buildConnectOptions(UrlA), n |-> 1]
            managed == [serverKey |-> serverKey, rawUrl |-> UrlA,
                        connection |-> connection, markedClosed |-> FALSE]
            sub == consumeSubscription(managed, <<"s">>, "out1", "k1", FALSE,
                       [template |-> Undefined, payload |-> Undefined,
                        headers |-> Undefined])
            reply == consumeSubscription(managed, <<"s">>, "out1", "k1", TRUE,
                                         settings)
        IN  /\ connections = Put(EmptyMap, serverKey, managed)
            /\ subscriptions = Put(EmptyMap, "k1",
                                   Context(sub, Stream(connection)))
            /\ replies = Put(EmptyMap, "k1",
                             Context(reply, Stream(connection)))
            /\ subscriptionCounts = incrementCount(EmptyMap, serverKey, <<"s">>)
            /\ replyCounts = incrementCount(EmptyMap, serverKey, <<"s">>)
            /\ connectorCalls = Put(EmptyMap, buildConnectOptions(UrlA), 1)
            /\ closeCalled = {}
            /\ streams = Put(EmptyMap, connection, 2)
            /\ ops = [i \in Slots |-> IF i = 1 THEN sub
                                      ELSE IF i = 2 THEN reply ELSE Idle]
            /\ running = 0

\* the two loops, the messages the broker delivers to them, and the stops
\* that end them
LoopNext ==
    \/ \E i \in Slots, msg \in Messages : Delivers(i, msg)
    \/ \E i \in Slots, threw \in BOOLEAN : LoopTakes(i, threw)
    \/ \E i \in Slots : LoopResumes(i)
    \/ \E i \in Slots : StreamFails(i)
    \/ \E i \in Slots : StreamEnds(i)
    \/ \E key \in Keys : StopSubscription(key)
    \/ \E key \in Keys : StopReplyHandler(key)
    \/ \E i \in Slots : Returns(i)

LoopSpec == LoopInit /\ [][LoopNext]_vars

\* ------------------------------------------------- the script parser ----
\* A string of a script is a sequence of tokens: a word ([A-Za-z0-9-]+ kept
\* whole), a digit, or one other character (" ", ":", "/", "#", ...; "//" and
\* a percent escape are kept whole).  Absent stands for undefined.
Absent == <<Undefined>>

Space == {" ", "\n"}

Digits == {"0", "1", "2", "3", "4", "5", "6", "7", "8", "9"}

\* the tokens /^[A-Za-z0-9-]+$/ accepts
Words == {"PUBLISH", "REPLY", "reply", "JETSTREAM", "REQUEST", "SUBSCRIBE",
          "NATS-Server", "NATS-Stream", "NATS-Durable", "NATS-Batch",
          "NATS-Reply-Mode", "NATS-Subject", "NATS-Timeout",
          "nats-server", "nats-stream", "nats-durable", "nats-batch",
          "nats-reply-mode", "nats-subject", "nats-timeout",
          "X-Id", "nats", "http", "h", "u", "p", "s", "S", "D", "many",
          "template", "Template", "payload", "other", "hello", "-"}
         \cup Digits

\* String.prototype.toUpperCase / toLowerCase on one token
UpperCase(token) ==
    CASE token = "reply" -> "REPLY"
      [] token = "template" -> "TEMPLATE"
      [] token = "Template" -> "TEMPLATE"
      [] OTHER -> token

LowerCase(token) ==
    CASE token = "NATS-Server" -> "nats-server"
      [] token = "NATS-Stream" -> "nats-stream"
      [] token = "NATS-Durable" -> "nats-durable"
      [] token = "NATS-Batch" -> "nats-batch"
      [] token = "NATS-Reply-Mode" -> "nats-reply-mode"
      [] token = "NATS-Subject" -> "nats-subject"
      [] token = "NATS-Timeout" -> "nats-timeout"
      [] token = "Template" -> "template"
      [] token = "X-Id" -> "x-id"
      [] OTHER -> token

toUpperCase(str) == [n \in 1..Len(str) |-> UpperCase(str[n])]

toLowerCase(str) == [n \in 1..Len(str) |-> LowerCase(str[n])]

\* String.prototype.trim
RECURSIVE trimStart(_)
trimStart(str) ==
    IF str # <<>> /\ Head(str) \in Space THEN trimStart(Tail(str)) ELSE str

RECURSIVE trimEnd(_)
trimEnd(str) ==
    IF str # <<>> /\ str[Len(str)] \in Space
    THEN trimEnd(SubSeq(str, 1, Len(str) - 1)) ELSE str

trim(str) == trimEnd(trimStart(str))

\* String.prototype.indexOf, counted from 1; 0 when the token does not occur
indexOf(str, token) ==
    IF \E n \in 1..Len(str) : str[n] = token
    THEN CHOOSE n \in 1..Len(str) :
             /\ str[n] = token
             /\ \A m \in 1..(n - 1) : str[m] # token
    ELSE 0

\* str.split(/\s+/, 1)[0] of a trimmed string: up to the first white space
FirstWord(str) ==
    IF \E n \in 1..Len(str) : str[n] \in Space
    THEN SubSeq(str, 1, (CHOOSE n \in 1..Len(str) :
                             /\ str[n] \in Space
                             /\ \A m \in 1..(n - 1) : str[m] \notin Space) - 1)
    ELSE str

\* a value is truthy: neither undefined nor ""
Given(str) == str # Absent /\ str # <<>>

\* BLOCK_DELIMITER = /^\s*#{3,}\s*$/
BLOCK_DELIMITER(text) ==
    LET t == trim(text)
    IN  Len(t) >= 3 /\ \A n \in 1..Len(t) : t[n] = "#"

\* COMMENT_PATTERN = /^\s*(#|\/\/)/
COMMENT_PATTERN(text) ==
    LET t == trimStart(text) IN t # <<>> /\ Head(t) \in {"#", "//"}

\* HEADER_KEY_PATTERN = /^[A-Za-z0-9-]+$/
HEADER_KEY_PATTERN(key) ==
    key # <<>> /\ \A n \in 1..Len(key) : key[n] \in Words

META_HEADERS == {<<"nats-server">>, <<"nats-timeout">>, <<"nats-stream">>,
                 <<"nats-durable">>, <<"nats-batch">>, <<"nats-reply-mode">>,
                 <<"nats-subject">>}

SUPPORTED_PROTOCOLS == {<<"nats", ":">>, <<"tls", ":">>, <<"ws", ":">>,
                        <<"wss", ":">>}

\* actionKeywords, and mapKeyword(keyword): the action type or "none"
mapKeyword(keyword) ==
    LET upper == toUpperCase(keyword)
    IN  CASE upper = <<"SUBSCRIBE">> -> "subscribe"
          [] upper = <<"REQUEST">> -> "request"
          [] upper = <<"PUBLISH">> -> "publish"
          [] upper = <<"REPLY">> -> "reply"
          [] upper = <<"JETSTREAM">> -> "jetstreamPull"
          [] OTHER -> "none"

\* the place of the first token of str that is in set, Len(str) + 1 if none
FirstOf(str, set) ==
    IF \E n \in 1..Len(str) : str[n] \in set
    THEN CHOOSE n \in 1..Len(str) :
             /\ str[n] \in set
             /\ \A m \in 1..(n - 1) : str[m] \notin set
    ELSE Len(str) + 1

From(str, n) == SubSeq(str, n, Len(str))

Before(str, n) == SubSeq(str, 1, n - 1)

\* new URL(value) throws
NoURL == [ok |-> FALSE, protocol |-> <<>>, username |-> <<>>,
          password |-> <<>>, hostname |-> <<>>, port |-> <<>>,
          pathname |-> <<>>]

\* the path of a URL keeps its percent escapes; a space is escaped
Escaped(path) ==
    [n \in 1..Len(path) |-> IF path[n] \in Space THEN "%20" ELSE path[n]]

\* a URL without "//": no authority, the rest is the path up to the query
Opaque(scheme, rest) ==
    [NoURL EXCEPT !.ok = TRUE, !.protocol = <<LowerCase(scheme), ":">>,
                  !.pathname = Escaped(Before(rest, FirstOf(rest, {"?"})))]

\* the URL of its parts; a port that is no number is an error
Assembled(scheme, username, password, hostname, port, tail) ==
    IF \E n \in 1..Len(port) : port[n] \notin Digits THEN NoURL
    ELSE [ok |-> TRUE, protocol |-> <<LowerCase(scheme), ":">>,
          username |-> username, password |-> password,
          hostname |-> hostname, port |-> port,
          pathname |-> Escaped(Before(tail, FirstOf(tail, {"?"})))]

\* user [":" password] and host [":" port]
Credentials(scheme, userinfo, hostport, tail) ==
    Assembled(scheme,
              Before(userinfo, FirstOf(userinfo, {":"})),
              From(userinfo, FirstOf(userinfo, {":"}) + 1),
              Before(hostport, FirstOf(hostport, {":"})),
              From(hostport, FirstOf(hostport, {":"}) + 1),
              tail)

\* [userinfo "@"] hostport; white space in the authority is an error
Authority(scheme, authority, tail) ==
    IF \E n \in 1..Len(authority) : authority[n] \in Space THEN NoURL
    ELSE Credentials(scheme,
                     Before(authority, indexOf(authority, "@")),
                     From(authority, indexOf(authority, "@") + 1),
                     tail)

\* after "//": the authority up to the path or the query
Hierarchical(scheme, rest) ==
    Authority(scheme, Before(rest, FirstOf(rest, {"/", "?"})),
              From(rest, FirstOf(rest, {"/", "?"})))

\* new URL(value): scheme ":" ["//" [user [":" password] "@"] host
\* [":" port]] path ["?" query]; the scheme is lower-cased
URL(value) ==
    IF ~(Len(value) >= 2 /\ value[1] \in Words \ Digits /\ value[1] # "-"
         /\ value[2] = ":")
    THEN NoURL
    ELSE IF Len(value) >= 3 /\ value[3] = "//"
    THEN Hierarchical(value[1], From(value, 4))
    ELSE Opaque(value[1], From(value, 3))

SupportedProtocol(url) ==
    IF url.ok /\ url.protocol \in SUPPORTED_PROTOCOLS THEN url ELSE NoURL

\* tryParseUrl(value): the URL, or NoURL for undefined
tryParseUrl(value) == SupportedProtocol(URL(value))

\* buildServerUrl(url)
buildServerUrl(url) ==
    LET auth == IF url.username # <<>>
                THEN url.username
                     \o (IF url.password # <<>> THEN <<":">> \o url.password
                         ELSE <<>>)
                     \o <<"@">>
                ELSE <<>>
        port == IF url.port # <<>> THEN <<":">> \o url.port ELSE <<>>
    IN  url.protocol \o <<"//">> \o auth \o url.hostname \o port

\* percent escapes that are no escape of a UTF-8 sequence
Malformed == {"%zz", "%"}

Unescaped(token) ==
    CASE token = "%2E" -> "." [] token = "%20" -> " " [] OTHER -> token

\* decodeURIComponent(str): throws URIError on a malformed escape
decodeURIComponent(str) ==
    IF \E n \in 1..Len(str) : str[n] \in Malformed
    THEN [threw |-> TRUE, value |-> Absent]
    ELSE [threw |-> FALSE,
          value |-> [n \in 1..Len(str) |-> Unescaped(str[n])]]

\* decoded.length > 0 ? decoded : undefined
NonEmpty(decoded) ==
    IF decoded.threw \/ Len(decoded.value) > 0 THEN decoded
    ELSE [threw |-> FALSE, value |-> Absent]

\* decodeSubject(pathname): the decoded path without its leading slash,
\* undefined if that is empty; the URIError of decodeURIComponent is not caught
decodeSubject(pathname) ==
    NonEmpty(decodeURIComponent(IF pathname # <<>> /\ Head(pathname) = "/"
                                THEN Tail(pathname) ELSE pathname))

DigitValue(d) ==
    CASE d = "0" -> 0 [] d = "1" -> 1 [] d = "2" -> 2 [] d = "3" -> 3
      [] d = "4" -> 4 [] d = "5" -> 5 [] d = "6" -> 6 [] d = "7" -> 7
      [] d = "8" -> 8 [] d = "9" -> 9

RECURSIVE Decimal(_)
Decimal(digits) ==
    IF digits = <<>> THEN 0
    ELSE 10 * Decimal(Before(digits, Len(digits)))
         + DigitValue(digits[Len(digits)])

NaN == [nan |-> TRUE, value |-> 0]

\* the digits a string starts with
Leading(str) ==
    Before(str, FirstOf(str, {str[n] : n \in 1..Len(str)} \ Digits))

Number(negative, digits) ==
    IF digits = <<>> THEN NaN
    ELSE [nan |-> FALSE,
          value |-> IF negative THEN 0 - Decimal(digits) ELSE Decimal(digits)]

Signed(t) ==
    IF t # <<>> /\ Head(t) \in {"-", "+"}
    THEN Number(Head(t) = "-", Leading(Tail(t)))
    ELSE Number(FALSE, Leading(t))

\* Number.parseInt(value, 10): white space, a sign, then the digits up to
\* the first other character; NaN without a digit
parseInt(value) == Signed(trimStart(value))

NoNumber == [defined |-> FALSE, value |-> 0]

\* Number.isFinite(numeric) ? numeric : undefined
Finite(numeric) ==
    IF numeric.nan THEN NoNumber
    ELSE [defined |-> TRUE, value |-> numeric.value]

\* parseInteger(value): undefined for no value and for NaN
parseInteger(value) ==
    IF ~Given(value) THEN NoNumber ELSE Finite(parseInt(value))

StartsLikeJson(trimmed) ==
    trimmed # <<>> /\ Head(trimmed) \in {"{", "[", "\"", "'"}

\* looksLikeJson(value)
looksLikeJson(value) ==
    IF ~Given(value) THEN FALSE ELSE StartsLikeJson(trim(value))

RANDOM_ID_PATTERN == {"randomId()", "RANDOMID()"}

\* sanitizeRandomIds(value): every randomId() becomes a quoted identifier
RECURSIVE sanitizeRandomIds(_)
sanitizeRandomIds(value) ==
    IF value = <<>> THEN <<>>
    ELSE (IF Head(value) \in RANDOM_ID_PATTERN THEN <<"\"", "uuid", "\"">>
          ELSE <<Head(value)>>)
         \o sanitizeRandomIds(Tail(value))

\* text.split(/\r?\n/): the lines of a text
RECURSIVE split(_)
split(text) ==
    LET n == FirstOf(text, {"\n"})
    IN  IF n > Len(text) THEN <<text>>
        ELSE <<Before(text, n)>> \o split(From(text, n + 1))

\* the RawLine of every line: its text and its index, from 0
Numbered(lines) ==
    [n \in 1..Len(lines) |-> [text |-> lines[n], lineNumber |-> n - 1]]

RawLines(text) == Numbered(split(text))

flushBlockNever(segments, current) == segments

\* flushBlock(): the lines collected so far become a block, if there are any
flushBlock(segments, current) ==
    IF current # <<>>
    THEN Append(segments, [kind |-> "block", lines |-> current])
    ELSE segments

\* the for loop of segmentNatsDocument from line `index` on
RECURSIVE Segmented(_, _, _, _)
Segmented(lines, index, segments, current) ==
    IF index > Len(lines) THEN flushBlock(segments, current)
    ELSE IF BLOCK_DELIMITER(lines[index].text)
    THEN Segmented(lines, index + 1,
                   Append(flushBlock(segments, current),
                          [kind |-> "delimiter", lines |-> <<lines[index]>>]),
                   <<>>)
    ELSE Segmented(lines, index + 1, segments, Append(current, lines[index]))

\* if (segments.length === 0) segments.push({ kind: "block", lines: [] })
NeverEmpty(segments) ==
    IF segments = <<>> THEN <<[kind |-> "block", lines |-> <<>>]>>
    ELSE segments

\* segmentNatsDocument(text)
segmentNatsDocument(text) ==
    NeverEmpty(Segmented(RawLines(text), 1, <<>>, <<>>))

\* is the line a command line, one to pass over, or the end of the search
RequestLineKind(trimmed) ==
    IF trimmed = <<>> THEN "skip"
    ELSE IF COMMENT_PATTERN(trimmed) \/ Head(trimmed) = "@" THEN "skip"
    ELSE IF mapKeyword(FirstWord(trimmed)) # "none" THEN "request"
    ELSE "other"

\* findRequestLineIndex(lines), counted from 1; 0 for -1
RECURSIVE findRequestLineIndex(_, _)
findRequestLineIndex(lines, index) ==
    IF index > Len(lines) THEN 0
    ELSE CASE RequestLineKind(trim(lines[index].text)) = "skip"
                -> findRequestLineIndex(lines, index + 1)
           [] RequestLineKind(trim(lines[index].text)) = "request" -> index
           [] OTHER -> 0

\* the header of a line "key: value", with ok false if the line is none
HeaderOf(raw, separator) ==
    [ok |-> separator > 0 /\ HEADER_KEY_PATTERN(trim(Before(raw, separator))),
     key |-> trim(Before(raw, separator)),
     value |-> sanitizeRandomIds(trim(From(raw, separator + 1)))]

\* parseHeaders(lines, startIndex): the header run and the index after it
RECURSIVE parseHeaders(_, _, _)
parseHeaders(lines, index, headers) ==
    IF index > Len(lines) THEN [headers |-> headers, nextIndex |-> index]
    ELSE IF trim(lines[index].text) = <<>>
    THEN [headers |-> headers, nextIndex |-> index + 1]
    ELSE IF COMMENT_PATTERN(trim(lines[index].text))
    THEN parseHeaders(lines, index + 1, headers)
    ELSE IF ~HeaderOf(lines[index].text, indexOf(lines[index].text, ":")).ok
    THEN [headers |-> headers, nextIndex |-> index]
    ELSE parseHeaders(lines, index + 1,
             Append(headers,
                    [key |-> HeaderOf(lines[index].text,
                                      indexOf(lines[index].text, ":")).key,
                     value |-> HeaderOf(lines[index].text,
                                        indexOf(lines[index].text, ":")).value]))

\* partitionHeaders(entries): the forwarded headers (the empty map stands
\* for undefined) and the metadata by lower-cased key, the last entry winning
RECURSIVE partitionHeaders(_, _, _)
partitionHeaders(entries, headers, meta) ==
    IF entries = <<>> THEN [headers |-> headers, meta |-> meta]
    ELSE IF toLowerCase(Head(entries).key) \in META_HEADERS
    THEN partitionHeaders(Tail(entries), headers,
                          Put(meta, toLowerCase(Head(entries).key),
                              Head(entries).value))
    ELSE partitionHeaders(Tail(entries),
                          Put(headers, Head(entries).key, Head(entries).value),
                          meta)

\* meta.get(name)
MetaGet(meta, name) ==
    IF <<name>> \in DOMAIN meta THEN meta[<<name>>] ELSE Absent

RECURSIVE join(_)
join(texts) ==
    IF texts = <<>> THEN <<>>
    ELSE IF Len(texts) = 1 THEN texts[1]
    ELSE texts[1] \o <<"\n">> \o join(Tail(texts))

RECURSIVE DropBlankStart(_)
DropBlankStart(texts) ==
    IF texts # <<>> /\ trim(Head(texts)) = <<>>
    THEN DropBlankStart(Tail(texts)) ELSE texts

RECURSIVE DropBlankEnd(_)
DropBlankEnd(texts) ==
    IF texts # <<>> /\ trim(texts[Len(texts)]) = <<>>
    THEN DropBlankEnd(Before(texts, Len(texts))) ELSE texts

Texts(lines) == [n \in 1..Len(lines) |-> lines[n].text]

Joined(bodyLines) ==
    IF bodyLines = <<>> THEN Absent ELSE sanitizeRandomIds(join(bodyLines))

\* collectBody(lines, startIndex)
collectBody(lines, startIndex) ==
    IF startIndex > Len(lines) THEN Absent
    ELSE Joined(DropBlankEnd(DropBlankStart(Texts(From(lines, startIndex)))))

NoConnectionResolved == [outcome |-> "undefined", subject |-> Absent,
                         server |-> Absent]

\* if (!subject) return undefined; return { subject, server }
SubjectAndServer(subject, server) ==
    IF ~Given(subject) THEN NoConnectionResolved
    ELSE [outcome |-> "ok", subject |-> subject, server |-> server]

\* the target is a URL: the subject is its decoded path, else nats-subject
ByUrl(meta, url, decoded) ==
    IF decoded.threw THEN [NoConnectionResolved EXCEPT !.outcome = "throws"]
    ELSE SubjectAndServer(IF decoded.value # Absent THEN decoded.value
                          ELSE MetaGet(meta, "nats-subject"),
                          buildServerUrl(url))

\* the target is no URL: the server is nats-server
ByHeader(meta, candidateSubject, serverHeader) ==
    IF ~Given(serverHeader) THEN NoConnectionResolved
    ELSE SubjectAndServer(IF candidateSubject # <<>> THEN candidateSubject
                          ELSE MetaGet(meta, "nats-subject"),
                          serverHeader)

Routed(meta, candidateSubject, url) ==
    IF url.ok THEN ByUrl(meta, url, decodeSubject(url.pathname))
    ELSE ByHeader(meta, candidateSubject, MetaGet(meta, "nats-server"))

Candidate(meta, candidateSubject) ==
    Routed(meta, candidateSubject, tryParseUrl(candidateSubject))

\* resolveConnection(target, meta): {subject, server}, undefined, or the
\* URIError of decodeSubject
resolveConnection(target, meta) ==
    Candidate(meta, IF Len(trim(target)) > 0 THEN trim(target)
                    ELSE IF MetaGet(meta, "nats-subject") # Absent
                    THEN MetaGet(meta, "nats-subject") ELSE <<>>)

NoAction == [type |-> "none", lineNumber |-> 0, subject |-> Absent,
             server |-> Absent, data |-> Absent, template |-> Absent,
             stream |-> Absent, durable |-> Absent, batchSize |-> NoNumber,
             timeoutMs |-> NoNumber, headers |-> EmptyMap]

templateModeIgnoresMode(replyMode, body) == ~looksLikeJson(body)

\* templateMode = replyMode === "template"
\*                || (!replyMode && !looksLikeJson(body))
templateMode(replyMode, body) ==
    replyMode = <<"template">> \/ (replyMode = <<>> /\ ~looksLikeJson(body))

ReplyBodyBoth(mode, body) == [template |-> body, data |-> body]

\* template: templateMode ? body : undefined,
\* data: !templateMode ? body : undefined
ReplyBody(mode, body) ==
    [template |-> IF mode THEN body ELSE Absent,
     data |-> IF ~mode THEN body ELSE Absent]

MathMaxSecond(a, b) == b

\* Math.max(a, b)
MathMax(a, b) == IF a >= b THEN a ELSE b

NoActionParsed == [outcome |-> "undefined", action |-> NoAction]

Parsed(action) == [outcome |-> "action", action |-> action]

\* parseInteger(meta.get("nats-batch")) ?? 1
batchCandidate(batch) == IF batch.defined THEN batch.value ELSE 1

\* the jetstreamPull action, or undefined without a stream or a durable
JetStreamPull(base, stream, durable, batch, timeoutMs) ==
    IF ~Given(stream) \/ ~Given(durable) THEN NoActionParsed
    ELSE Parsed([base EXCEPT
                    !.subject = stream, !.stream = stream,
                    !.durable = durable,
                    !.batchSize = [defined |-> TRUE,
                                   value |-> MathMax(1, batchCandidate(batch))],
                    !.timeoutMs = timeoutMs])

\* (meta.get("nats-reply-mode") ?? "").toLowerCase()
replyMode(mode) == IF mode # Absent THEN toLowerCase(mode) ELSE <<>>

ReplyFrom(base, subject, fields) ==
    Parsed([base EXCEPT !.subject = subject, !.template = fields.template,
                        !.data = fields.data])

\* the reply action
Reply(base, subject, mode, body) ==
    ReplyFrom(base, subject, ReplyBody(templateMode(mode, body), body))

\* the action of the block, by its type
Typed(type, base, meta, body, subject) ==
    IF type = "jetstreamPull"
    THEN JetStreamPull(base, MetaGet(meta, "nats-stream"),
                       MetaGet(meta, "nats-durable"),
                       parseInteger(MetaGet(meta, "nats-batch")),
                       parseInteger(MetaGet(meta, "nats-timeout")))
    ELSE IF ~Given(subject) THEN NoActionParsed
    ELSE IF type = "reply"
    THEN Reply(base, subject, replyMode(MetaGet(meta, "nats-reply-mode")),
               body)
    ELSE Parsed([base EXCEPT
                    !.subject = subject, !.data = body,
                    !.timeoutMs = parseInteger(MetaGet(meta, "nats-timeout"))])

\* if (!connection) return undefined, after resolveConnection
AfterResolve(lineNumber, type, headers, meta, body, connection) ==
    IF connection.outcome = "throws"
    THEN [NoActionParsed EXCEPT !.outcome = "throws"]
    ELSE IF connection.outcome = "undefined" THEN NoActionParsed
    ELSE Typed(type,
               [NoAction EXCEPT !.type = type, !.lineNumber = lineNumber,
                                !.server = connection.server,
                                !.headers = headers],
               meta, body, connection.subject)

Partitioned(lineNumber, type, target, parts, body) ==
    AfterResolve(lineNumber, type, parts.headers, parts.meta, body,
               resolveConnection(target, parts.meta))

WithHeaders(lines, lineNumber, type, target, headerResult) ==
    Partitioned(lineNumber, type, target,
                partitionHeaders(headerResult.headers, EmptyMap, EmptyMap),
                collectBody(lines, headerResult.nextIndex))

\* const type = mapKeyword(keyword); if (!type) return undefined
WithKeyword(lines, requestIndex, requestLine, keyword) ==
    IF mapKeyword(keyword) = "none" THEN NoActionParsed
    ELSE WithHeaders(lines, lines[requestIndex].lineNumber,
                     mapKeyword(keyword),
                     trim(From(requestLine, Len(keyword) + 1)),
                     parseHeaders(lines, requestIndex + 1, <<>>))

WithRequestLine(lines, requestIndex, requestLine) ==
    WithKeyword(lines, requestIndex, requestLine, FirstWord(requestLine))

\* if (requestIndex === -1) return undefined
AtRequestLine(lines, requestIndex) ==
    IF requestIndex = 0 THEN NoActionParsed
    ELSE WithRequestLine(lines, requestIndex, trim(lines[requestIndex].text))

\* parseActionFromBlock(lines): an action, undefined, or the error thrown
parseActionFromBlock(lines) ==
    IF lines = <<>> THEN NoActionParsed
    ELSE AtRequestLine(lines, findRequestLineIndex(lines, 1))

\* the for loop of parseNatsDocument at one segment
Visited(op, parsed) ==
    CASE parsed.outcome = "throws" -> Fail(op, "URI malformed")
      [] parsed.outcome = "action"
           -> [op EXCEPT !.actions = Append(@, parsed.action)]
      [] OTHER -> op

Visit(op, segment) ==
    Visited(op, IF segment.kind = "block"
                THEN parseActionFromBlock(segment.lines) ELSE NoActionParsed)

\* parseNatsDocument(text) is called
ParseNatsDocument(i) ==
    /\ running = i
    /\ ops[i].type = "parseNatsDocument"
    /\ ops[i].pc = "start"
    /\ ops' = Set(i, [ops[i] EXCEPT
                         !.pc = "segments",
                         !.segments = segmentNatsDocument(ops[i].text)])
    /\ UNCHANGED <<connections, subscriptions, replies, subscriptionCounts,
                   replyCounts, connectorCalls, closeCalled, streams, running>>

\* one turn of the for loop of parseNatsDocument: a delimiter is passed
\* over, the action of a block is pushed if there is one, an error thrown by
\* parseActionFromBlock leaves parseNatsDocument
ParsesSegment(i) ==
    /\ running = i
    /\ ops[i].type = "parseNatsDocument"
    /\ ops[i].pc = "segments"
    /\ ops[i].segments # <<>>
    /\ ops' = Set(i, Visit([ops[i] EXCEPT !.segments = Tail(@)],
                           Head(ops[i].segments)))
    /\ UNCHANGED <<connections, subscriptions, replies, subscriptionCounts,
                   replyCounts, connectorCalls, closeCalled, streams, running>>

\* return actions
ParseReturns(i) ==
    /\ running = i
    /\ ops[i].type = "parseNatsDocument"
    /\ ops[i].pc = "segments"
    /\ ops[i].segments = <<>>
    /\ ops' = Set(i, Finish(ops[i]))
    /\ UNCHANGED <<connections, subscriptions, replies, subscriptionCounts,
                   replyCounts, connectorCalls, closeCalled, streams, running>>

\* the command lines of the scripts
RequestLines == {
    <<"JETSTREAM", " ", "nats", ":", "//", "h", "/", "s">>,
    <<"JETSTREAM", " ", "nats", ":", "//", "h">>,
    <<"JETSTREAM">>,
    <<"REPLY", " ", "nats", ":", "//", "h", "/", "s">>,
    <<"reply", " ", "s">>,
    <<"PUBLISH", " ", "nats", ":", "//", "h", "/", "%zz">>,
    <<"PUBLISH", " ", "nats", ":", "//", "u", ":", "p", "@", "h", ":", "4",
      "2", "/", "s", "%2E", "s">>,
    <<"REQUEST", " ", "http", ":", "//", "h", "/", "s">>,
    <<"hello">> }

\* the header lines of a script: for every name no line, or one of its lines
HeaderChoices == <<
    {<<>>, <<"NATS-Stream", ":", " ", "S">>, <<"nats-stream", ":">>},
    {<<>>, <<"NATS-Durable", ":", " ", "D">>},
    {<<>>, <<"NATS-Batch", ":", " ", "0">>, <<"NATS-Batch", ":", " ", "-", "2">>,
     <<"NATS-Batch", ":", " ", "1", "2">>, <<"NATS-Batch", ":", "many">>},
    {<<>>, <<"NATS-Reply-Mode", ":", " ", "template">>,
     <<"NATS-Reply-Mode", ":", " ", "payload">>,
     <<"NATS-Reply-Mode", ":", " ", "Template">>,
     <<"NATS-Reply-Mode", ":", " ", "other">>},
    {<<>>, <<"NATS-Server", ":", " ", "nats", ":", "//", "h">>},
    {<<>>, <<"X-Id", ":", " ", "randomId()">>} >>

\* the bodies of a script, with the blank line before them if there is one
Bodies == {<<>>,
           <<"\n", "\n", "hello", " ", "$", "s">>,
           <<"\n", " ", "{", "}">>,
           <<"\n", "'", "s", "'", "\n">>,
           <<"\n", "randomId()">>}

\* what may follow the first block of a script
Continuations == {<<>>,
                  <<"\n", "#", "#", "#", "\n", "PUBLISH", " ", "nats", ":",
                    "//", "h", "/", "s", "\n", "hello">>}

RECURSIVE HeaderRuns(_)
HeaderRuns(n) ==
    IF n = 0 THEN {<<>>}
    ELSE {run \o (IF line = <<>> THEN <<>> ELSE <<"\n">> \o line) :
              run \in HeaderRuns(n - 1), line \in HeaderChoices[n]}

\* scripts without a command: the empty one, blank lines, delimiter lines
\* at the start, at the end and next to each other, and a line of two hashes
Fragments == {<<>>,
              <<"\n">>,
              <<"#", "#", "#">>,
              <<"#", "#">>,
              <<"#", "#", "#", "\n", "#", "#", "#", "#">>,
              <<" ", "#", "#", "#", " ", "\n", "hello">>,
              <<"hello", "\n", "#", "#", "#">>,
              <<"hello", "\n", "\n", "#", "#", "#", "\n", "\n", "hello">>}

\* the scripts parseNatsDocument is given
Documents ==
    {request \o headers \o body \o more :
         request \in RequestLines, headers \in HeaderRuns(Len(HeaderChoices)),
         body \in Bodies, more \in Continuations}
    \cup Fragments

ParseInit ==
    /\ connections = EmptyMap
    /\ subscriptions = EmptyMap
    /\ replies = EmptyMap
    /\ subscriptionCounts = EmptyMap
    /\ replyCounts = EmptyMap
    /\ connectorCalls = EmptyMap
    /\ closeCalled = {}
    /\ streams = EmptyMap
    /\ running = 1
    /\ \E text \in Documents :
           ops = [i \in Slots |->
                     IF i = 1
                     THEN [Idle EXCEPT !.type = "parseNatsDocument",
                                       !.pc = "start", !.text = text]
                     ELSE Idle]

ParseNext ==
    \/ \E i \in Slots : ParseNatsDocument(i)
    \/ \E i \in Slots : ParsesSegment(i)
    \/ \E i \in Slots : ParseReturns(i)

\* parseNatsDocument applied to every script of Documents
ParseSpec == ParseInit /\ [][ParseNext]_vars

\* ----------------------------------------------- rendering templates ----
\* interpolateTemplate(template, msg) is called and returns
InterpolateTemplate(i) ==
    /\ running = i
    /\ ops[i].type = "interpolateTemplate"
    /\ ops[i].pc = "start"
    /\ ops' = Set(i, Finish([ops[i] EXCEPT
                                !.rendered = interpolateTemplate(ops[i].text,
                                                                 ops[i].msg)]))
    /\ UNCHANGED <<connections, subscriptions, replies, subscriptionCounts,
                   replyCounts, connectorCalls, closeCalled, streams, running>>

\* the templates of the reply handlers
Templates == {
    <<>>,
    <<Lit("plain")>>,
    <<Lit("got "), Tok("data", "")>>,
    <<Tok("data", ""), Lit(" on "), Tok("subject", "")>>,
    <<Tok("header", "h"), Lit("/"), Tok("header", "x")>>,
    <<Tok("json", "a")>>,
    <<Lit("v: "), Tok("json", "a"), Lit(" "), Tok("json", "b")>>,
    <<Tok("subject", ""), Tok("json", "a"), Tok("data", "")>> }

\* a body that is JSON: JSON.stringify of it, and its top-level fields
Json(text, fields) == [decodable |-> TRUE, text |-> text, fields |-> fields]

\* the bodies of the messages: msg.string() and msg.json()
RenderBodies == {
    [body |-> <<Lit("hello")>>, json |-> NoJson],
    [body |-> <<Tok("subject", "")>>, json |-> NoJson],
    [body |-> <<Lit("see "), Tok("header", "h"), Tok("json", "a")>>,
     json |-> NoJson],
    [body |-> <<Lit("{ }")>>, json |-> Json(<<Lit("{}")>>, EmptyMap)],
    [body |-> <<Lit("5")>>, json |-> Json(<<Lit("5")>>, EmptyMap)],
    [body |-> <<Lit("{\"a\": \"x\"}")>>,
     json |-> Json(<<Lit("{\"a\":\"x\"}")>>,
                   Put(EmptyMap, "a",
                       [kind |-> "string", text |-> <<Lit("x")>>]))],
    [body |-> <<Lit("{\"a\": 5, \"b\": null}")>>,
     json |-> Json(<<Lit("{\"a\":5,\"b\":null}")>>,
                   Put(Put(EmptyMap, "a",
                           [kind |-> "number", text |-> <<Lit("5")>>]),
                       "b", [kind |-> "null", text |-> <<Lit("null")>>]))],
    [body |-> <<Lit("{\"a\":{\"c\":[]},\"b\":\"\"}")>>,
     json |-> Json(<<Lit("{\"a\":{\"c\":[]},\"b\":\"\"}")>>,
                   Put(Put(EmptyMap, "a",
                           [kind |-> "object",
                            text |-> <<Lit("{\"c\":[]}")>>]),
                       "b", [kind |-> "string", text |-> <<>>]))],
    [body |-> <<Lit("{\"a\":\""), Tok("subject", ""), Lit("\"}")>>,
     json |-> Json(<<Lit("{\"a\":\""), Tok("subject", ""), Lit("\"}")>>,
                   Put(EmptyMap, "a",
                       [kind |-> "string",
                        text |-> <<Tok("subject", "")>>]))] }

\* the headers of the messages
RenderHeaders == {
    EmptyMap,
    Put(EmptyMap, "h", <<Lit("v")>>),
    Put(EmptyMap, "h", <<Lit("<"), Tok("json", "a"), Lit(">")>>) }

\* the messages the templates are rendered against
RenderMessages ==
    {[subject |-> <<"s">>, reply |-> "inbox", body |-> b.body,
      json |-> b.json, headers |-> h] :
         b \in RenderBodies, h \in RenderHeaders}

RenderInit ==
    /\ connections = EmptyMap
    /\ subscriptions = EmptyMap
    /\ replies = EmptyMap
    /\ subscriptionCounts = EmptyMap
    /\ replyCounts = EmptyMap
    /\ connectorCalls = EmptyMap
    /\ closeCalled = {}
    /\ streams = EmptyMap
    /\ running = 1
    /\ \E template \in Templates, msg \in RenderMessages :
           ops = [i \in Slots |->
                     IF i = 1
                     THEN [Idle EXCEPT !.type = "interpolateTemplate",
                                       !.pc = "start", !.text = template,
                                       !.msg = msg]
                     ELSE Idle]

RenderNext == \E i \in Slots : InterpolateTemplate(i)

\* interpolateTemplate applied to every template and message
RenderSpec == RenderInit /\ [][RenderNext]_vars

\* ------------------------------------------------------------- claims ----
\* the contexts of a registry bound to a (connection identity, subject) pair
Bound(store, server, subject) ==
    {k \in DOMAIN store : store[k].server = server /\ store[k].subject = subject}

\* the counter entry of a pair, 0 when the mapping has none
Entry(counts, server, subject) ==
    IF subjectKey(server, subject) \in DOMAIN counts
    THEN counts[subjectKey(server, subject)] ELSE 0

CountersMatch(store, counts) ==
    /\ \A server \in ServerKeys, subject \in Subjects :
          Entry(counts, server, subject)
            = Cardinality(Bound(store, server, subject))
    /\ \A key \in DOMAIN counts : counts[key] > 0

\* C1: at every suspension point, in each registry, the counter entry of
\* every (connection identity, subject) pair equals the number of registered
\* contexts bound to the pair, and no entry is 0 or less.
C1_CountersMatchContexts ==
    running = 0 =>
        /\ CountersMatch(subscriptions, subscriptionCounts)
        /\ CountersMatch(replies, replyCounts)

\* C2: operations that request the same connection identity before the
\* first acquisition has completed do not each invoke the connector: no two
\* of them are waiting for a connector invocation for the same identity.
C2_OneConnectorCallPerIdentity ==
    \A i, j \in Slots :
        (/\ i # j
         /\ ops[i].await = "connector"
         /\ ops[j].await = "connector")
        => normalizeServerUrl(ops[i].url) # normalizeServerUrl(ops[j].url)

\* a start* call is made in slot i
StartCalled(i, type) == ops[i].type = "none" /\ ops'[i].type = type

\* C3: a startSubscription call whose key is active returns at once: it
\* opens no stream, invokes no connector, and leaves the registry, with the
\* one context of the key, and the counters as they are.  The same holds for
\* startReplyHandler and the reply registry.
C3_StartOnActiveKeyIsNoOp ==
    [][\A i \in Slots :
        /\ (StartCalled(i, "startSubscription")
              /\ ops'[i].key \in DOMAIN subscriptions)
           => (/\ ops'[i].pc = "return"
               /\ UNCHANGED <<subscriptions, subscriptionCounts, streams,
                              connectorCalls, connections>>)
        /\ (StartCalled(i, "startReplyHandler")
              /\ ops'[i].key \in DOMAIN replies)
           => (/\ ops'[i].pc = "return"
               /\ UNCHANGED <<replies, replyCounts, streams, connectorCalls,
                              connections>>)]_vars

\* a second startSubscription on an active key has just returned, with the
\* counter of its subject still 1
C3_Witness ==
    \E i \in Slots :
        /\ ops[i].type = "startSubscription"
        /\ ops[i].pc = "return"
        /\ ops[i].managed = NoManaged
        /\ ops[i].key \in DOMAIN subscriptions
        /\ collectCount(subscriptionCounts, ops[i].subject) = 1

\* a context without its stream: subject, identity, sink and reply settings
Settings(store) ==
    [k \in DOMAIN store |->
        [subject |-> store[k].subject, server |-> store[k].server,
         sink |-> store[k].sink, template |-> store[k].template,
         payload |-> store[k].payload, headers |-> store[k].headers]]

OnServer(store, serverKey) == {k \in DOMAIN store : store[k].server = serverKey}

\* reconnectConnection in slot i is at its return statement and no other
\* call was made since it was called with nothing else in flight
ReconnectReturns(i) ==
    /\ ops[i].type = "reconnectConnection"
    /\ ops[i].pc = "return"
    /\ ops[i].solo

\* C4: when reconnectConnection(serverKey) returns (nothing else having
\* run meanwhile), the keys that were bound to the identity are active under
\* their original key, subject, sink, template, payload and headers, on
\* streams of the new connection, which is the table entry; no other key
\* changed; the counters are what they were; the number returned is the
\* number of those contexts.
C4_ReconnectRestores ==
    \A i \in Slots : ReconnectReturns(i) =>
        LET snap == ops[i].snap
            sk == ops[i].serverKey
        IN  /\ Settings(subscriptions) = Settings(snap.subscriptions)
            /\ Settings(replies) = Settings(snap.replies)
            /\ subscriptionCounts = snap.subscriptionCounts
            /\ replyCounts = snap.replyCounts
            /\ \A subject \in Subjects :
                  /\ collectCount(subscriptionCounts, subject)
                       = collectCount(snap.subscriptionCounts, subject)
                  /\ collectCount(replyCounts, subject)
                       = collectCount(snap.replyCounts, subject)
            /\ ReturnValue(ops[i])
                 = Cardinality(OnServer(snap.subscriptions, sk))
                   + Cardinality(OnServer(snap.replies, sk))
            /\ connections[sk].connection = ops[i].newConnection
            /\ ops[i].newConnection \notin closeCalled
            /\ \A k \in OnServer(snap.subscriptions, sk) :
                  subscriptions[k].subscription.connection = ops[i].newConnection
            /\ \A k \in OnServer(snap.replies, sk) :
                  replies[k].subscription.connection = ops[i].newConnection

\* reconnectConnection returns 2: it has restored a subscription and a reply
\* handler
C4_Witness ==
    \E i \in Slots :
        /\ ReconnectReturns(i)
        /\ OnServer(ops[i].snap.subscriptions, ops[i].serverKey) # {}
        /\ OnServer(ops[i].snap.replies, ops[i].serverKey) # {}
        /\ ReturnValue(ops[i]) = 2

\* C5: when reconnectConnection calls close() on the old connection, the new
\* connection is already the table entry and every captured subscription and
\* reply handler has been restored on it.
C5_CloseAfterInstallAndRebind ==
    \A i \in Slots :
        (ops[i].type = "reconnectConnection" /\ ops[i].await = "close") =>
            /\ ops[i].serverKey \in DOMAIN connections
            /\ connections[ops[i].serverKey].connection = ops[i].newConnection
            /\ ops[i].newConnection # NoConnection
            /\ ops[i].todoSubscriptions = {}
            /\ ops[i].todoReplies = {}

\* reconnectConnection in slot i is throwing what the connector threw for
\* the replacement connection
ReconnectConnectFailed(i) ==
    /\ ops[i].type = "reconnectConnection"
    /\ ops[i].pc = "throw"
    /\ ops[i].error = "new connection failed"

C7_ResetTearsDownBeforeClose ==
    [][\A i \in Slots :
        (/\ ops[i].type = "reset"
         /\ ops'[i].type = "reset"
         /\ ops[i].closings = {}
         /\ ops'[i].closings # {})
        => (subscriptions = EmptyMap /\ replies = EmptyMap)]_vars

\* a reset() called with a subscription and a reply handler active has
\* called close() on a connection
C7_Witness ==
    \E i \in Slots :
        /\ ops[i].type = "reset"
        /\ ops[i].solo
        /\ ops[i].closings # {}
        /\ ops[i].snap.subscriptions # EmptyMap
        /\ ops[i].snap.replies # EmptyMap

\* the physical connections of the table
TableConnections == {connections[k].connection : k \in DOMAIN connections}

\* C8: reset() calls close() on every connection of the table, and it never
\* throws: it returns whichever of the close() calls failed.
C8_ResetClosesBestEffort ==
    \A i \in Slots : ops[i].type = "reset" =>
        /\ ops[i].pc # "throw"
        /\ ops[i].pc = "clear" =>
              /\ ops[i].closings = TableConnections
              /\ ops[i].closings \subseteq closeCalled
        /\ ops[i].pc = "return" =>
              /\ ops[i].closings \subseteq closeCalled
              /\ ops[i].closeFailed \subseteq ops[i].closings

\* reset() returns after closing two connections, one of which failed to
\* close
C8_Witness ==
    \E i \in Slots :
        /\ ops[i].type = "reset"
        /\ ops[i].pc = "return"
        /\ Cardinality(ops[i].closings) = 2
        /\ Cardinality(ops[i].closeFailed) = 1

\* C9: when reset() returns (nothing else having run meanwhile), no key is
\* active in either registry, every subscription and reply-handler count is
\* 0, the table is empty, and close() has been called on every connection
\* that was in the table.
C9_ResetLeavesNothing ==
    \A i \in Slots :
        (ops[i].type = "reset" /\ ops[i].pc = "return" /\ ops[i].solo) =>
            /\ subscriptions = EmptyMap
            /\ replies = EmptyMap
            /\ \A subject \in Subjects :
                  /\ collectCount(subscriptionCounts, subject) = 0
                  /\ collectCount(replyCounts, subject) = 0
            /\ connections = EmptyMap
            /\ \A k \in DOMAIN ops[i].snap.connections :
                  ops[i].snap.connections[k].connection \in closeCalled

\* what stopping key does to the counters of a registry, as claimed: the
\* counter of the pair of its context goes down by one, the pair leaves the
\* mapping when no context of the pair is left, and the count of the subject
\* is then 0
StopsAsClaimed(store, counts, storeAfter, countsAfter, key) ==
    key \in DOMAIN store =>
        LET server == store[key].server
            subject == store[key].subject
        IN  /\ Entry(countsAfter, server, subject)
                 = Entry(counts, server, subject) - 1
            /\ Bound(storeAfter, server, subject) = {} =>
                  subjectKey(server, subject) \notin DOMAIN countsAfter
            /\ (\A k \in DOMAIN storeAfter : storeAfter[k].subject # subject)
                  => collectCount(countsAfter, subject) = 0

\* a stopSubscription / stopReplyHandler step: no operation is executing
\* before or after it and only the registry, its counters and the streams
\* change
StopStep ==
    /\ running = 0
    /\ running' = 0
    /\ UNCHANGED <<connections, connectorCalls, closeCalled>>
    /\ \A i \in Slots : ops'[i].type = ops[i].type /\ ops'[i].await = ops[i].await

\* C10: stopping an active context decrements the counter of its pair to the
\* prior value minus one; stopping the last context of a pair removes the
\* pair from the mapping, so that the count of the subject is 0.
C10_StopDecrements ==
    [][StopStep =>
        \A key \in Keys :
            /\ (key \in DOMAIN subscriptions /\ key \notin DOMAIN subscriptions')
               => StopsAsClaimed(subscriptions, subscriptionCounts,
                                 subscriptions', subscriptionCounts', key)
            /\ (key \in DOMAIN replies /\ key \notin DOMAIN replies')
               => StopsAsClaimed(replies, replyCounts,
                                 replies', replyCounts', key)]_vars

\* the operation executing in this step, or that the step calls
Acting(i) == running = i \/ (running = 0 /\ running' = i)

\* C11: a step in which close() is called on a connection, or in which an
\* entry leaves the connection table, is a step of reset() or of
\* reconnectConnection(): no step of stopSubscription, stopReplyHandler,
\* a consume loop that ends, sendRequest, publish or pullJetStream is one.
C11_OnlyResetAndReconnectClose ==
    [][(\/ closeCalled' # closeCalled
        \/ \E k \in DOMAIN connections : k \notin DOMAIN connections')
       => \E i \in Slots :
             /\ Acting(i)
             /\ ops[i].type \in {"reset", "reconnectConnection"}]_vars

\* an entry is still in the table, and close() was not called on its
\* connection, after an acknowledgement failure of pullJetStream marked it
\* closed and the consume loop of a context bound to it ended
C11_Witness ==
    \E k \in DOMAIN connections :
        /\ connections[k].markedClosed
        /\ connections[k].connection \notin closeCalled
        /\ \E key \in DOMAIN subscriptions :
              /\ subscriptions[key].server = k
              /\ subscriptions[key].subscription.ended

\* C16: reconnectConnection(serverKey) called for an identity without an
\* entry in the table throws at once; the step invokes no connector and
\* leaves the table, the registries, the counters and the streams alone.
C16_ReconnectWithoutEntryFails ==
    [][\A i \in Slots :
        (/\ ops[i].type = "none"
         /\ ops'[i].type = "reconnectConnection"
         /\ ops'[i].serverKey \notin DOMAIN connections)
        => (/\ ops'[i].pc = "throw"
            /\ ops'[i].error = "No connection found"
            /\ UNCHANGED <<connections, subscriptions, replies,
                           subscriptionCounts, replyCounts, connectorCalls,
                           closeCalled, streams>>)]_vars

\* reconnectConnection is throwing for an identity that has no entry while
\* another identity has one, with an active subscription
C16_Witness ==
    \E i \in Slots :
        /\ ops[i].type = "reconnectConnection"
        /\ ops[i].pc = "throw"
        /\ ops[i].error = "No connection found"
        /\ ops[i].serverKey \notin DOMAIN connections
        /\ connections # EmptyMap
        /\ subscriptions # EmptyMap

\* the records with a title in a log
Count(log, title) == Cardinality({n \in 1..Len(log) : log[n] = title})

IsPull(i) == ops[i].type = "pullJetStream"

\* C17: a pullJetStream appends "No messages available" exactly when its
\* batch ends without error and without a message; the record is then the
\* only record of the pull, and ack() was not called.
C17_NoMessagesExactlyOnEmptyBatch ==
    \A i \in Slots : IsPull(i) =>
        /\ Count(ops[i].log, "No messages available") > 0 =>
              /\ ops[i].log = <<"No messages available">>
              /\ ops[i].pc = "return"
              /\ ops[i].received = 0
              /\ ops[i].acks = 0
              /\ "fetch" \in ops[i].jsCalls
        /\ (/\ ops[i].pc = "return"
            /\ ops[i].received = 0
            /\ Count(ops[i].log, "Pull error") = 0)
           => ops[i].log = <<"No messages available">>

\* a pull whose fetch yielded nothing returns
C17_Witness ==
    \E i \in Slots :
        /\ IsPull(i)
        /\ ops[i].pc = "return"
        /\ ops[i].log = <<"No messages available">>
        /\ ops[i].jsCalls = {"consumers.get", "fetch"}

\* the pull is between two messages of its batch, or has returned
BetweenMessages(i) ==
    IsPull(i) /\ (ops[i].await = "next" \/ ops[i].pc = "return")

\* C18 as stated: an acknowledgement is attempted for each message the
\* fetch yields.
C18_EveryMessageAcknowledged ==
    \A i \in Slots : BetweenMessages(i) => ops[i].acks = ops[i].received

\* C18 as amended: each message the fetch yields gets one "Received" record,
\* and ack() is called once on each message that exposes it; an
\* acknowledgement that fails appends one "Ack error" record and the loop
\* awaits the next message of the batch.
C18_ReceivedAndAcknowledged ==
    [][\A i \in Slots : (IsPull(i) /\ running = 0) =>
        /\ (ops[i].await = "next" /\ ops'[i].received # ops[i].received) =>
              /\ ops'[i].received = ops[i].received + 1
              /\ ops'[i].log = Append(ops[i].log, "Received")
              /\ ops'[i].acks - ops[i].acks
                   = ops'[i].ackable - ops[i].ackable
              /\ ops'[i].await = IF ops'[i].acks = ops[i].acks
                                 THEN "next" ELSE "ack"
        /\ (ops[i].await = "ack" /\ ops'[i].await # "ack") =>
              /\ ops'[i].await = "next"
              /\ ops'[i].received = ops[i].received
              /\ ops'[i].acks = ops[i].acks
              /\ ops'[i].log \in {ops[i].log,
                                  Append(ops[i].log, "Ack error")}]_vars

\* the acknowledgement of the first message failed and the second message
\* was received and acknowledged
C18_Witness ==
    \E i \in Slots :
        /\ IsPull(i)
        /\ ops[i].log = <<"Received", "Ack error", "Received">>
        /\ ops[i].acks = 2
        /\ ops[i].await = "next"

\* C19: a pullJetStream never throws once it has started the consumer
\* lookup; when the lookup or the fetch fails, and whenever the iteration
\* ends, the call returns normally, after a "Pull error" record unless the
\* batch simply ended; a "Pull error" record is the last record of a pull.
C19_PullFailuresAreLogged ==
    /\ [](\A i \in Slots : IsPull(i) =>
            /\ ops[i].pc = "throw" => ops[i].jsCalls = {}
            /\ Count(ops[i].log, "Pull error") > 0 =>
                  /\ ops[i].pc = "return"
                  /\ Count(ops[i].log, "Pull error") = 1
                  /\ ops[i].log[Len(ops[i].log)] = "Pull error")
    /\ [][\A i \in Slots : (IsPull(i) /\ running = 0) =>
            /\ (/\ ops[i].await = "consumer"
                /\ ops'[i].await \notin {"consumer", "fetch"}) =>
                  /\ ops'[i].pc = "return"
                  /\ ops'[i].log = <<"Pull error">>
            /\ (/\ ops[i].await = "fetch"
                /\ ops'[i].await \notin {"fetch", "next"}) =>
                  /\ ops'[i].pc = "return"
                  /\ ops'[i].log = <<"Pull error">>
            /\ (ops[i].await = "next" /\ ops'[i].await = "none") =>
                  /\ ops'[i].pc = "return"
                  /\ ops'[i].log \in
                        {Append(ops[i].log, "Pull error"),
                         IF ops[i].received = 0
                         THEN <<"No messages available">>
                         ELSE ops[i].log}]_vars

\* the iteration failed after the first message: the pull returns with a
\* "Pull error" record after the "Received" record
C19_Witness ==
    \E i \in Slots :
        /\ IsPull(i)
        /\ ops[i].pc = "return"
        /\ ops[i].log = <<"Received", "Pull error">>

\* C20: a pullJetStream that got a connection without JetStream throws
\* "JetStream is not available on this connection": it has made no consumer
\* lookup and no fetch, and has appended no record.
C20_NoJetStreamFailsFast ==
    \A i \in Slots :
        (/\ IsPull(i)
         /\ ops[i].managed # NoManaged
         /\ ops[i].await # "getConnection"
         /\ ops[i].managed.connection.options.servers \notin JetStreamServers)
        => (/\ ops[i].pc = "throw"
            /\ ops[i].error = "JetStream is not available on this connection"
            /\ ops[i].jsCalls = {}
            /\ ops[i].log = <<>>)

\* a pullJetStream on a connection without JetStream is throwing
C20_Witness ==
    \E i \in Slots :
        /\ IsPull(i)
        /\ ops[i].pc = "throw"
        /\ ops[i].managed # NoManaged
        /\ ops[i].error = "JetStream is not available on this connection"

\* the messages queued on the stream of a loop
Queued(op) == {op.queue[n] : n \in 1..Len(op.queue)}

\* this step is loop i taking message msg from its stream
Took(i, msg) ==
    /\ running = 0
    /\ IsLoop(i)
    /\ msg \in Queued(ops[i])
    /\ ops'[i].taken = Append(ops[i].taken, msg.n)

Session == <<connections, subscriptions, replies, subscriptionCounts,
             replyCounts, connectorCalls, closeCalled, streams>>

\* C12: a reply handler that takes a message without a reply address does
\* not call respond(), whatever template or payload it was started with; it
\* appends one "Publish received (no reply)" record and does nothing else.
C12_NoReplyAddressNoRespond ==
    [][\A i \in Slots : \A msg \in Queued(ops[i]) :
          (Took(i, msg) /\ ops[i].isReply /\ msg.reply = Undefined)
          => /\ ops'[i].responses = ops[i].responses
             /\ ops'[i].records =
                    Append(ops[i].records,
                           [title |-> "Publish received (no reply)",
                            n |-> msg.n, reply |-> <<>>])
             /\ ops'[i].error = "none"
             /\ UNCHANGED Session]_vars

C12_Witness ==
    \E i \in Slots :
        /\ IsLoop(i) /\ ops[i].isReply
        /\ ops[i].template = "tpl" /\ ops[i].payload = "data"
        /\ ops[i].responses = <<>>
        /\ \E n \in 1..Len(ops[i].records) :
               ops[i].records[n].title = "Publish received (no reply)"

\* C13: a reply handler that takes a message with a reply address calls
\* respond() once with the rendered template if a template is configured,
\* else once with the payload verbatim if a payload is configured, else not
\* at all, appending "Request received without template or payload".  The
\* configured reply headers go with the response, and once respond() has
\* returned a record with the request and the reply is appended.
C13_ReplyPrecedence ==
    [][\A i \in Slots : \A msg \in Queued(ops[i]) :
          (Took(i, msg) /\ ops[i].isReply /\ msg.reply # Undefined)
          => LET op == ops[i]
                 expected ==
                     IF op.template \notin {Undefined, ""}
                     THEN interpolateTemplate(Text(op.template), msg)
                     ELSE Text(op.payload)
                 answers == op.template \notin {Undefined, ""}
                            \/ op.payload \notin {Undefined, ""}
             IN  IF answers
                 THEN /\ Len(ops'[i].responses) = Len(op.responses) + 1
                      /\ LET r == ops'[i].responses[Len(ops'[i].responses)]
                         IN  /\ r.n = msg.n
                             /\ r.text = expected
                             /\ r.headers.entries = op.headers
                             /\ IF r.threw
                                THEN ops'[i].records = op.records
                                ELSE ops'[i].records =
                                         Append(op.records,
                                                [title |-> "Request, Reply",
                                                 n |-> msg.n,
                                                 reply |-> expected])
                 ELSE /\ ops'[i].responses = op.responses
                      /\ ops'[i].records =
                             Append(op.records,
                                    [title |->
                                     "Request received without template or payload",
                                     n |-> msg.n, reply |-> <<>>])]_vars

C13_Witness ==
    \E i \in Slots :
        /\ IsLoop(i) /\ ops[i].isReply
        /\ ops[i].template = "tpl" /\ ops[i].payload = "data"
        /\ Len(ops[i].responses) = 1
        /\ ops[i].responses[1].text # Text("data")
        /\ ~ops[i].responses[1].threw
        /\ ops[i].records # <<>>
        /\ ops[i].records[Len(ops[i].records)].title = "Request, Reply"

\* the messages the records of a loop are about, in the order of the records
About(records) ==
    LET kept == SelectSeq(records, LAMBDA r : r.title # "Error")
    IN  [n \in 1..Len(kept) |-> kept[n].n]

Increasing(numbers) ==
    \A a, b \in 1..Len(numbers) : a < b => numbers[a] < numbers[b]

\* C14: the records of one consume loop are in the arrival order of their
\* messages: the loop takes the earliest message of its stream, and only
\* once every message it took before has its reply issued and its record
\* appended, however the other loop and the stop operations interleave.
C14_RecordsInArrivalOrder ==
    /\ [](\A i \in Slots : IsLoop(i) => Increasing(About(ops[i].records)))
    /\ [][\A i \in Slots : \A msg \in Queued(ops[i]) :
             Took(i, msg)
             => /\ \A other \in Queued(ops[i]) : msg.n <= other.n
                /\ \A n \in 1..Len(ops[i].taken) :
                       /\ ops[i].taken[n] < msg.n
                       /\ \E r \in 1..Len(ops[i].records) :
                              ops[i].records[r].n = ops[i].taken[n]
                /\ About(ops'[i].records) \in
                       {About(ops[i].records),
                        Append(About(ops[i].records), msg.n)}]_vars

C14_Witness ==
    \E i, j \in Slots :
        /\ i # j /\ IsLoop(i) /\ IsLoop(j)
        /\ About(ops[i].records) = <<1, 2>>
        /\ ops[j].records # <<>>
        /\ ops[j].queue # <<>>

Errors(records) == SelectSeq(records, LAMBDA r : r.title = "Error")

\* C15: when the stream of a consume loop fails for good, the loop appends
\* one "Error" record and returns: it subscribes to nothing, changes nothing
\* in the session, appends nothing more, and raises nothing.
C15_StreamFailureEndsLoop ==
    /\ [](\A i \in Slots :
             (IsLoop(i) /\ ops[i].error = "stream failed")
             => /\ ops[i].pc = "return"
                /\ ops[i].await = "none"
                /\ running = i
                /\ Len(Errors(ops[i].records)) = 1
                /\ ops[i].records[Len(ops[i].records)].title = "Error")
    /\ [][\A i \in Slots :
             (IsLoop(i) /\ running = 0 /\ ops[i].error = "none"
              /\ ops'[i].error = "stream failed")
             => /\ ops'[i].records =
                       Append(ops[i].records,
                              [title |-> "Error", n |-> 0, reply |-> <<>>])
                /\ ops'[i].responses = ops[i].responses
                /\ ops'[i].taken = ops[i].taken
                /\ UNCHANGED Session]_vars

C15_Witness ==
    \E i \in Slots :
        /\ IsLoop(i) /\ ops[i].error = "stream failed"
        /\ Len(ops[i].records) = 2
        /\ ops[i].records[1].title = "Received"
        /\ ops[i].pc = "return"

\* C21: a request that times out or fails in transport makes sendRequest
\* throw that failure: no log record is produced, the registries and their
\* counters are not touched by the failing step, and a sendRequest that ran
\* with no other operation in flight leaves them as they were at its call.
C21_RequestFailurePropagates ==
    /\ [](\A i \in Slots :
             (ops[i].type = "sendRequest" /\ ops[i].error = "request failed")
             => /\ ops[i].pc = "throw"
                /\ ops[i].log = <<>>
                /\ running = i
                /\ ops[i].solo
                   => /\ subscriptions = ops[i].snap.subscriptions
                      /\ replies = ops[i].snap.replies
                      /\ subscriptionCounts = ops[i].snap.subscriptionCounts
                      /\ replyCounts = ops[i].snap.replyCounts)
    /\ [][\A i \in Slots :
             (running = 0 /\ ops[i].type = "sendRequest"
              /\ ops[i].await = "request"
              /\ ops'[i].error = "request failed")
             => UNCHANGED <<subscriptions, replies, subscriptionCounts,
                            replyCounts>>]_vars

C21_Witness ==
    \E i \in Slots :
        /\ ops[i].type = "sendRequest"
        /\ ops[i].pc = "throw"
        /\ ops[i].error = "request failed"
        /\ ops[i].solo
        /\ subscriptions # EmptyMap
        /\ replies # EmptyMap

\* C22: getConnectionStatus is "unknown" exactly for an identity without a
\* table entry, "disconnected" exactly when the entry is marked closed or
\* its client is closed, "connected" otherwise; listConnections has one row
\* per entry, with the same status.
C22_StatusReflectsMarkAndClient ==
    /\ \A sk \in ServerKeys :
           LET status == getConnectionStatus(sk)
           IN  /\ status = "unknown" <=> sk \notin DOMAIN connections
               /\ sk \in DOMAIN connections
                  => /\ status = "disconnected"
                        <=> \/ connections[sk].markedClosed
                            \/ connections[sk].connection \in closeCalled
                     /\ status = "connected"
                        <=> /\ ~connections[sk].markedClosed
                            /\ connections[sk].connection \notin closeCalled
                     /\ \E row \in listConnections :
                            /\ row.server = sk
                            /\ row.status = status
    /\ \A row \in listConnections :
           /\ row.server \in DOMAIN connections
           /\ row.status = getConnectionStatus(row.server)
           /\ row.url = connections[row.server].rawUrl
    /\ Cardinality(listConnections) = Cardinality(DOMAIN connections)

C22_Witness ==
    \E b, c \in DOMAIN connections :
        /\ getConnectionStatus(b) = "disconnected"
        /\ connections[b].markedClosed
        /\ connections[b].connection \notin closeCalled
        /\ getConnectionStatus(c) = "connected"
        /\ \E row \in listConnections : row.status = "disconnected"

\* the subjects the counts are asked for
CountedSubjects == {<<"s">>, <<"t">>, PipeSubject}

\* the contexts of a registry whose subject is exactly `subject`
OnSubject(store, subject) == {k \in DOMAIN store : store[k].subject = subject}

\* getSubscriptionCount(subject)
getSubscriptionCount(subject) == collectCount(subscriptionCounts, subject)

\* getReplyHandlerCount(subject)
getReplyHandlerCount(subject) == collectCount(replyCounts, subject)

\* C23: with no operation in flight, getSubscriptionCount(subject) is the
\* number of subscription contexts on exactly that subject over all
\* connections, and getReplyHandlerCount(subject) that of reply contexts.
C23_CountIsContextsOnSubject ==
    Quiescent
    => \A subject \in CountedSubjects :
           /\ getSubscriptionCount(subject)
                  = Cardinality(OnSubject(subscriptions, subject))
           /\ getReplyHandlerCount(subject)
                  = Cardinality(OnSubject(replies, subject))

\* isSubscribed(key)
isSubscribed(key) == key \in DOMAIN subscriptions

\* isReplyHandlerActive(key)
isReplyHandlerActive(key) == key \in DOMAIN replies

\* what the queries on subscriptions answer, for every key and subject
SubscriptionView ==
    <<[key \in Keys |-> isSubscribed(key)],
      [subject \in CountedSubjects |-> getSubscriptionCount(subject)]>>

\* what the queries on reply handlers answer
ReplyView ==
    <<[key \in Keys |-> isReplyHandlerActive(key)],
      [subject \in CountedSubjects |-> getReplyHandlerCount(subject)]>>

\* this step belongs to a call of the given operation
StepOf(type) == \E i \in Slots : ops[i].type = type \/ ops'[i].type = type

\* C24: subscriptions and reply handlers are separate namespaces: no step of
\* a startReplyHandler call and no step that changes a reply answer (a start
\* or a stop of a reply handler) changes isSubscribed or
\* getSubscriptionCount, and the same with the roles exchanged.
C24_NamespacesIndependent ==
    [][/\ StepOf("startReplyHandler") => UNCHANGED SubscriptionView
       /\ StepOf("startSubscription") => UNCHANGED ReplyView
       /\ ReplyView' # ReplyView => UNCHANGED SubscriptionView
       /\ SubscriptionView' # SubscriptionView => UNCHANGED ReplyView]_vars

\* the same key is active in both registries, on different identities
C24_Witness ==
    /\ Quiescent
    /\ \E key \in Keys :
           /\ isSubscribed(key) /\ isReplyHandlerActive(key)
           /\ subscriptions[key].server # replies[key].server
    /\ \E key \in Keys : isSubscribed(key) /\ ~isReplyHandlerActive(key)

\* connectionCount()
connectionCount == Cardinality(DOMAIN connections)

\* scheme, credentials, host and port of a server URL
Identity(url) ==
    <<url.protocol, url.username, url.password, url.hostname, url.port>>

\* the identities that have a connection
Connected == {Identity(connections[k].rawUrl) : k \in DOMAIN connections}

\* the operations that are given a server URL
UsesUrl(op) ==
    op.type \in {"startSubscription", "startReplyHandler", "sendRequest",
                 "publish"}

\* C25: when every operation is awaited before the next, operations on one
\* identity (scheme, credentials, host, port) share one connection whatever
\* the path: the connector is invoked only for an identity without a
\* connection, with the address without credentials and path; the table
\* has one entry per connected identity, it grows by the identity of the
\* operation that connected and is emptied only by reset.
C25_OneConnectionPerIdentity ==
    /\ [](/\ connectionCount = Cardinality(Connected)
          /\ \A i \in Slots :
                 (UsesUrl(ops[i]) /\ ops[i].managed # NoManaged)
                 => \E k \in DOMAIN connections :
                        /\ Identity(connections[k].rawUrl) = Identity(ops[i].url)
                        /\ connections[k].connection
                               = ops[i].managed.connection
          /\ \A k \in DOMAIN connections :
                 LET url == connections[k].rawUrl
                 IN  connections[k].connection.options.servers
                         = <<url.protocol, "//", url.hostname>>
                           \o (IF url.port # "" THEN <<":", url.port>>
                               ELSE <<>>))
    /\ [][/\ connectorCalls' # connectorCalls
             => \E i \in Slots :
                    /\ UsesUrl(ops'[i])
                    /\ ops'[i].await = "connector"
                    /\ Identity(ops'[i].url) \notin Connected
          /\ Connected' # Connected
             => \/ \E i \in Slots :
                       /\ UsesUrl(ops[i])
                       /\ ops[i].await = "connector"
                       /\ Connected' = Connected \cup {Identity(ops[i].url)}
                \/ /\ Connected' = {}
                   /\ \E i \in Slots : ops[i].type = "reset"]_vars

\* the second operation on an identity, through another path, is given the
\* connection of the first, next to a connection of another identity
C25_Witness ==
    /\ connectionCount = 2
    /\ Invocations = 2
    /\ \E i \in Slots, k \in DOMAIN connections :
           /\ UsesUrl(ops[i])
           /\ ops[i].url = UrlAPath
           /\ connections[k].rawUrl = UrlA
           /\ ops[i].managed = connections[k]

IsParse(i) == ops[i].type = "parseNatsDocument"

\* the blocks of the script of a parse, as segmentNatsDocument yields them
BlocksOf(op) ==
    SelectSeq(segmentNatsDocument(op.text), LAMBDA x : x.kind = "block")

\* C26: parseNatsDocument never raises: whatever the script, it returns a
\* sequence of actions, and a block that resolves to no valid action (a URL
\* target whose path cannot be percent-decoded included) is left out.
C26_ParsingNeverRaises ==
    \A i \in Slots : IsParse(i) => ops[i].pc # "throw"

\* the command line of a block that has one, its target and its metadata
RequestOf(lines) == trim(lines[findRequestLineIndex(lines, 1)].text)

TargetOf(lines) ==
    trim(From(RequestOf(lines), Len(FirstWord(RequestOf(lines))) + 1))

MetaOf(lines) ==
    partitionHeaders(
        parseHeaders(lines, findRequestLineIndex(lines, 1) + 1, <<>>).headers,
        EmptyMap, EmptyMap).meta

\* the blocks of a script whose command is of the given type
BlocksOfType(op, type) ==
    {n \in 1..Len(BlocksOf(op)) :
         /\ findRequestLineIndex(BlocksOf(op)[n].lines, 1) > 0
         /\ mapKeyword(FirstWord(RequestOf(BlocksOf(op)[n].lines))) = type}

\* the server of a block resolves: its target is a URL of a supported
\* scheme, or it has a nats-server header
ServerResolves(lines) ==
    \/ tryParseUrl(TargetOf(lines)).ok
    \/ Given(MetaGet(MetaOf(lines), "nats-server"))

\* the actions a parse returned for the command on line lineNumber
ActionsAt(op, lineNumber) ==
    {n \in 1..Len(op.actions) : op.actions[n].lineNumber = lineNumber}

RequestLineNumber(lines) == lines[findRequestLineIndex(lines, 1)].lineNumber

\* C27: a JETSTREAM block whose server resolves and that has both
\* nats-stream and nats-durable yields a jetstreamPull action, with or
\* without a subject; without nats-stream or nats-durable it yields none.
C27_JetStreamNeedsNoSubject ==
    \A i \in Slots :
        (IsParse(i) /\ ops[i].pc = "return")
        => \A n \in BlocksOfType(ops[i], "jetstreamPull") :
               LET lines == BlocksOf(ops[i])[n].lines
                   meta == MetaOf(lines)
                   named == /\ Given(MetaGet(meta, "nats-stream"))
                            /\ Given(MetaGet(meta, "nats-durable"))
                   pulls == {a \in ActionsAt(ops[i], RequestLineNumber(lines)) :
                                ops[i].actions[a].type = "jetstreamPull"}
               IN  /\ (ServerResolves(lines) /\ named) => pulls # {}
                   /\ ~named => pulls = {}

\* the body of a block that has a command line
BodyOf(lines) ==
    collectBody(lines,
                parseHeaders(lines, findRequestLineIndex(lines, 1) + 1,
                             <<>>).nextIndex)

\* the actions of the given type that a parse returned
ActionsOfType(op, type) ==
    {a \in 1..Len(op.actions) : op.actions[a].type = type}

\* the lines of the block whose command line produced the action
BlockOf(op, action) ==
    BlocksOf(op)[CHOOSE n \in BlocksOfType(op, action.type) :
                     RequestLineNumber(BlocksOf(op)[n].lines)
                         = action.lineNumber].lines

Returned(i) == IsParse(i) /\ ops[i].pc = "return"

\* C28: for every block that produces a Reply action, template and data
\* are never both set: exactly one of them is set, and it is the body, or
\* both are absent, which is the case exactly when the block has no body.
C28_ReplyTemplateXorData ==
    \A i \in Slots :
        Returned(i)
        => \A a \in ActionsOfType(ops[i], "reply") :
               LET action == ops[i].actions[a]
                   body == BodyOf(BlockOf(ops[i], action))
               IN  /\ ~(action.template # Absent /\ action.data # Absent)
                   /\ (action.template = Absent /\ action.data = Absent)
                          <=> body = Absent
                   /\ action.template \in {Absent, body}
                   /\ action.data \in {Absent, body}

\* a parse has returned a Reply action carrying its body as data only
C28_Witness ==
    \E i \in Slots :
        /\ Returned(i)
        /\ \E a \in ActionsOfType(ops[i], "reply") :
               /\ ops[i].actions[a].data # Absent
               /\ ops[i].actions[a].template = Absent
               /\ BodyOf(BlockOf(ops[i], ops[i].actions[a]))
                      = ops[i].actions[a].data

\* the first non-blank character of a body is one of { [ " '
PayloadLike(body) ==
    \E n \in 1..Len(body) :
        /\ body[n] \in {"{", "[", "\"", "'"}
        /\ \A m \in 1..(n - 1) : body[m] \in Space

\* the body is the action's template and the action has no data
InTemplate(action, body) == action.template = body /\ action.data = Absent

\* the body is the action's data and the action has no template
InData(action, body) == action.data = body /\ action.template = Absent

\* C29: the body of a REPLY block goes to template when nats-reply-mode is
\* template, to data when it is payload, and with no mode given to data
\* when its first non-blank character is one of { [ " ' and to template
\* otherwise.
C29_ReplyModeSelection ==
    \A i \in Slots :
        Returned(i)
        => \A a \in ActionsOfType(ops[i], "reply") :
               LET action == ops[i].actions[a]
                   lines == BlockOf(ops[i], action)
                   body == BodyOf(lines)
                   mode == MetaGet(MetaOf(lines), "nats-reply-mode")
               IN  body # Absent
                   => /\ mode = <<"template">> => InTemplate(action, body)
                      /\ mode = <<"payload">> => InData(action, body)
                      /\ mode = Absent
                         => IF PayloadLike(body) THEN InData(action, body)
                            ELSE InTemplate(action, body)

\* a parse has returned a Reply action whose body starts like a payload and
\* is its template, because the block says nats-reply-mode: template
C29_Witness ==
    \E i \in Slots :
        /\ Returned(i)
        /\ \E a \in ActionsOfType(ops[i], "reply") :
               LET lines == BlockOf(ops[i], ops[i].actions[a])
               IN  /\ MetaGet(MetaOf(lines), "nats-reply-mode")
                          = <<"template">>
                   /\ PayloadLike(BodyOf(lines))
                   /\ InTemplate(ops[i].actions[a], BodyOf(lines))

\* the text is a decimal numeral without sign
Numeral(value) ==
    value # <<>> /\ \A n \in 1..Len(value) : value[n] \in Digits

\* the batch size the NATS-Batch value of a block stands for
BatchOf(value) ==
    IF value # Absent /\ Numeral(value) /\ Decimal(value) >= 1
    THEN Decimal(value) ELSE 1

\* the NATS-Batch values that are no positive integer
NoBatch == {Absent, <<"0">>, <<"-", "2">>, <<"many">>}

\* C30: the batchSize of every JETSTREAM action is at least 1: it is 1 for
\* a NATS-Batch of 0, of a negative number, for a non-numeric and for an
\* absent one, and n for a positive integer n.
C30_BatchSizeAtLeastOne ==
    \A i \in Slots :
        Returned(i)
        => \A a \in ActionsOfType(ops[i], "jetstreamPull") :
               LET action == ops[i].actions[a]
                   batch == MetaGet(MetaOf(BlockOf(ops[i], action)),
                                    "nats-batch")
               IN  /\ action.batchSize.defined
                   /\ action.batchSize.value >= 1
                   /\ action.batchSize.value = BatchOf(batch)
                   /\ batch \in NoBatch => action.batchSize.value = 1

\* a parse has returned a JETSTREAM action with batchSize 1 for NATS-Batch: -2
C30_Witness ==
    \E i \in Slots :
        /\ Returned(i)
        /\ \E a \in ActionsOfType(ops[i], "jetstreamPull") :
               /\ MetaGet(MetaOf(BlockOf(ops[i], ops[i].actions[a])),
                          "nats-batch") = <<"-", "2">>
               /\ ops[i].actions[a].batchSize.value = 1

\* the lines of the segments, in the order of the segments
RECURSIVE LinesOf(_)
LinesOf(segments) ==
    IF segments = <<>> THEN <<>>
    ELSE Head(segments).lines \o LinesOf(Tail(segments))

\* the segments are a segmentation of the text: there is at least one, and
\* their lines in order are the lines of the text, each once, numbered by
\* its index from 0
Segmentation(text, segments) ==
    /\ Len(segments) >= 1
    /\ Len(LinesOf(segments)) = Len(split(text))
    /\ \A n \in 1..Len(split(text)) :
           /\ LinesOf(segments)[n].text = split(text)[n]
           /\ LinesOf(segments)[n].lineNumber = n - 1
    /\ text = <<>>
       => segments = <<[kind |-> "block",
                        lines |-> <<[text |-> <<>>, lineNumber |-> 0]>>]>>

\* C31: for every document segmentNatsDocument returns at least one
\* segment, every line of the document is in exactly one segment with its
\* index as lineNumber, the lines of the segments in order are the lines of
\* the document, and the empty document gives one block holding one empty
\* line.
C31_SegmentsReconstructDocument ==
    [][\A i \in Slots :
           ParseNatsDocument(i) => Segmentation(ops[i].text, ops'[i].segments)]_vars

\* a script with blocks around delimiter lines has just been segmented
C31_Witness ==
    \E i \in Slots :
        /\ IsParse(i)
        /\ ops[i].pc = "segments"
        /\ ops[i].segments = segmentNatsDocument(ops[i].text)
        /\ \E a, b, c \in 1..Len(ops[i].segments) :
               /\ a < b /\ b < c
               /\ ops[i].segments[a].kind = "block"
               /\ ops[i].segments[b].kind = "delimiter"
               /\ ops[i].segments[c].kind = "block"
               /\ Len(ops[i].segments[a].lines) > 1

IsRender(i) == ops[i].type = "interpolateTemplate" /\ ops[i].pc = "return"

\* what the message supplies for a token of the template: its body for
\* $msg.data, its subject, the header's value, the JSON field's value
Supplied(msg, t) ==
    CASE t.class = "data" -> safeStringResponse(msg)
      [] t.class = "subject" -> SubjectText(msg.subject)
      [] t.class = "header" -> IF t.name \in DOMAIN msg.headers
                               THEN msg.headers[t.name] ELSE <<>>
      [] t.class = "json" -> JsonField(msg, t.name)
      [] OTHER -> <<t>>

\* the template with each of its own tokens replaced, and nothing else
InPlace(template, msg) ==
    Replaced(template, [t \in Tokens(template) |-> Supplied(msg, t)])

\* C32: interpolateTemplate substitutes independently and non-recursively:
\* the text it returns is the template with each token of the template
\* replaced by what the message supplies for it; text inserted for one token
\* is never scanned and replaced as a token of another class.
C32_SubstitutionsIndependent ==
    \A i \in Slots :
        IsRender(i) => ops[i].rendered = InPlace(ops[i].text, ops[i].msg)

\* what $json.<name> stands for: nothing when the body is not JSON or has no
\* such field, a string as it is, any other value JSON-encoded (the text of
\* a value is its characters for a string and its JSON text otherwise)
JsonValue(msg, name) ==
    IF ~msg.json.decodable \/ name \notin DOMAIN msg.json.fields THEN <<>>
    ELSE msg.json.fields[name].text

\* the template holds no token but $json.<name> tokens
OnlyJson(template) ==
    \A t \in Tokens(template) : t.class \in {"text", "json"}

\* C33: $json.<field> is replaced by the empty string when the body is not
\* decodable as JSON or has no such field, by the value as it is when it is
\* a string, and by the JSON encoding of the value otherwise.
C33_JsonFieldSubstitution ==
    \A i \in Slots :
        (IsRender(i) /\ OnlyJson(ops[i].text))
        => ops[i].rendered
               = Replaced(ops[i].text,
                          [t \in Tokens(ops[i].text) |->
                              IF t.class = "json"
                              THEN JsonValue(ops[i].msg, t.name)
                              ELSE <<t>>])


====
